---- MODULE Spec2Model ----
(***************************************************************************)
(* Model of the AI-assisted document generation pipeline of PortfolioAI:   *)
(*   - GroqClient._make_request     (backend/app/services/groq_client.py)  *)
(*   - GroqClient.generate_cv       (backend/app/services/groq_client.py)  *)
(*   - CVGenerator.generate_cv      (backend/app/services/cv_generator.py) *)
(*   - the /api/cv/generate handler (backend/app/main.py)                  *)
(*   - ResumeProcessor.process_resume                                      *)
(*                                  (backend/app/services/resume_processor.py) *)
(*                                                                         *)
(* The program runs on one asyncio event loop.  A coroutine is modelled by *)
(* a program counter that rests only at its await points; the code between *)
(* two awaits is synchronous and is one step.  Wall-clock time is the      *)
(* variable now; timers (asyncio.wait_for, asyncio.sleep) fire when now    *)
(* has reached their deadline, earliest deadline first.  The blocking API  *)
(* call runs in a worker thread (asyncio.to_thread): cancelling the task   *)
(* that awaits it does not stop the thread.                                *)
(***************************************************************************)
EXTENDS Integers, Sequences, FiniteSets, TLC

(***************************************************************************)
(* Program constants.                                                      *)
(***************************************************************************)
max_retries == 2
retry_delay == 1
\* a per-attempt timeout short enough for three attempts within 90 seconds
AttemptTimeout_Short == 10 * max_retries
AttemptTimeout == 60
CvBudget == 90
HandlerBudget == 180
OptimizeBudget == 120

(***************************************************************************)
(* Bounds of the model.                                                    *)
(***************************************************************************)
\* longest list of messages a caller passes to _make_request
MaxMsgs == 2
\* longest markdown document, in lines, handed to the renderers
MaxLines == 5
\* number of times _generate_fallback_cv is called on one cv_data
FallbackCalls == 2
\* longest extracted text, in characters
MaxChars == 5
\* number of times _clean_extracted_text is applied in a row
CleanCalls == 2
\* number of cleanup_file tasks scheduled on one path
CleanupTasks == 3
\* longest markdown_content written as markdown, in characters
MaxMdChars == 4
\* longest response, in tokens, given to the parsing of optimize_resume
MaxTokens == 4
\* most pages of a PDF given to _extract_text_from_pdf
MaxPages == 4
\* longest ALL-CAPS line of the texts with a header given to
\* _clean_extracted_text
MaxHeaderChars == 7
\* number of times the event loop may be held up by synchronous work
MaxStalls == 1
\* seconds the event loop is held up by one stall
StallTime == 200
\* granularity, in seconds, of the time an API call takes to return
ApiLatency == 25

Attempts == 0..max_retries

(***************************************************************************)
(* Inputs.                                                                 *)
(***************************************************************************)
\* a message is modelled by the set of keys it has
MessageKeys == {"role", "content"}
Message == SUBSET MessageKeys
WellFormedMessage == MessageKeys

RECURSIVE SeqsUpTo(_, _)
SeqsUpTo(S, n) ==
    IF n = 0 THEN {<<>>}
    ELSE LET shorter == SeqsUpTo(S, n - 1)
         IN  shorter \cup {Append(s, x) : s \in {t \in shorter : Len(t) = n - 1}, x \in S}

\* the message lists the callers of this repository build: one system and one
\* user message, both with role and content (groq_client.py 255-270,
\* resume_processor.py 242-245)
RepoMessages == <<WellFormedMessage, WellFormedMessage>>

\* what the worker thread running chat.completions.create can end with
\*   "text"       a completion whose first choice has non-empty content
\*   "json", "fenced_json", "json_list"
\*                non-empty content that is a JSON object, a JSON object
\*                inside a ``` fence, a JSON value that is not an object
\*   "empty"      a completion whose first choice has content ""
\*   "none"       a completion whose first choice has content None
\*   "no_choices" a completion with an empty choices list
\*   "api_error"  the call raises (transport error, API error)
Contents == {"text", "json", "fenced_json", "json_list", "empty", "none"}
ThreadOutcomes == Contents \cup {"no_choices", "api_error"}

\* the entry points that reach the AI client
AIScenarios == {"request", "cv", "handler", "resume", "optimize", "portfolio", "cover"}
Scenarios == AIScenarios \cup {"render", "fallback", "clean", "cleanup", "markdown",
                               "parse", "pdf"}

VARIABLES
    scenario,     \* which entry point of the program this run exercises
    now,          \* wall-clock time in seconds since the entry point was called
    stalls,       \* number of times the event loop has been held up
    enabled,      \* GroqClient.enabled and GroqClient.client is set
    \* ---- GroqClient._make_request
    mr_pc,        \* "idle", "in_flight", "backoff", "done"
    mr_msgs,      \* the messages argument
    attempt,      \* the loop variable of for attempt in range(max_retries + 1)
    started,      \* number of API attempts started so far
    thr,          \* worker thread of each attempt: "none", "running", "finished"
    mr_deadline,  \* deadline of the wait_for / sleep _make_request is suspended in
    mr_result,    \* how the call ended
    mr_value,     \* the value returned on success
    waits,        \* the backoff delays slept so far, in order
    mr_fails,     \* how each failed attempt failed, in order
    \* ---- CVGenerator.generate_cv
    cv_pc,        \* "idle", "ai", "render", "done"
    cv_format,    \* the output_format argument
    cv_data_ok,   \* cv_data has the types the formatting code expects
    cv_deadline,  \* deadline of wait_for(groq_client.generate_cv, 90)
    markdown,     \* markdown_content
    cv_source,    \* where markdown_content came from
    fs,           \* the temp files: path -> [state, fmt, body]
    cv_result,    \* "none", "returned", "raised"
    cv_path,      \* the path returned
    cv_log,       \* the outcome of the render and what was done about it, in order
    \* ---- the /api/cv/generate handler
    h_pc,         \* "idle", "waiting", "done"
    h_deadline,   \* deadline of wait_for(shield(generate_cv), 180)
    h_status,     \* HTTP status of the answer: 0 (none yet), 200, 500, 504
    h_output_file,\* the handler's output_file variable
    scheduled,    \* paths with a cleanup_file background task
    \* ---- ResumeProcessor.process_resume
    rp_pc,        \* "idle", "analyze", "done"
    rp_extract,   \* what opening and extracting the file gives
    rp_out,       \* "none", "error", "result"
    rp_analysis,  \* the 'analysis' of the result
    \* ---- CVGenerator._create_docx and _create_pdf
    rd_lines,     \* the lines of markdown_content, each by its kind
    docx_done,    \* _create_docx has run
    docx_doc,     \* the paragraphs of the docx document
    pdf_done,     \* _create_pdf has run
    pdf_elements, \* the flowables of the pdf document
    \* ---- GroqClient.optimize_resume and ResumeOptimizer.optimize_resume
    or_pc,        \* "idle", "ai", "done"
    or_via,       \* the client was called by ResumeOptimizer.optimize_resume
    or_resume_ok, \* resume_text has 50 characters or more after strip()
    or_deadline,  \* deadline of wait_for(_make_request, 120)
    or_parsed,    \* the object parsed from the response
    or_result,    \* the dict GroqClient.optimize_resume returned
    ro_result,    \* the dict ResumeOptimizer.optimize_resume returned
    \* ---- PortfolioBuilder.build_from_resume
    pb_pc,        \* "idle", "ai", "done"
    pb_extract,   \* what _extract_text_from_file ended with
    pb_out,       \* "none", "returned", "raised"
    \* ---- CVGenerator._generate_fallback_cv
    fb_data,      \* the cv_data argument
    fb_docs,      \* the documents returned by the calls made so far
    \* ---- ResumeProcessor._clean_extracted_text
    cl_text,      \* the text argument of the first call
    cl_out,       \* what the calls made so far returned, each applied to the last
    \* ---- cleanup_file
    cf_kind,      \* which cleanup_file each task runs
    cf_file,      \* the path the tasks were given: "present" or "absent"
    cf_pc,        \* per task: "start", "remove", "done", "raised"
    cf_caught,    \* per task: its except clause has caught an exception
    \* ---- the markdown branch of CVGenerator.generate_cv
    mw_doc,       \* markdown_content, as characters
    mw_file,      \* the output file: "absent" or "present"
    mw_bytes,     \* the bytes of the output file
    mw_result,    \* "none", "returned", "raised"
    \* ---- the response parsing of GroqClient.optimize_resume
    pa_text,      \* the response, as tokens
    pa_done,      \* the parsing block has run
    pa_tiers,     \* the texts json.loads was given, in order
    pa_outcome,   \* "none", "parsed", "unparseable"
    \* ---- ResumeProcessor._extract_text_from_pdf under process_resume
    pg_pages,     \* what extract_text() does on each page of the file
    pg_next,      \* the page the loop is at
    pg_text,      \* the list 'text': the pages whose text was appended
    pg_value,     \* the string _extract_text returned, in pieces
    pg_out,       \* "none", "error" (78-83), "text" (process_resume goes on)
    \* ---- the legacy cover-letter endpoint and GroqClient.generate_cover_letter
    lc_pc,        \* "idle", "ai", "done"
    lc_text,      \* what the endpoint returns as "cover_letter"
    lc_record,    \* the CoverLetter row stored: "none" or its content.status
    lc_api_status \* api_call.status_code: 0 (no row yet), 200, 500

envvars == <<scenario, stalls, enabled>>
mrvars == <<mr_pc, mr_msgs, attempt, started, thr, mr_deadline, mr_result, mr_value, waits,
           mr_fails>>
cvvars == <<cv_pc, cv_format, cv_data_ok, cv_deadline, markdown, cv_source, fs,
            cv_result, cv_path, cv_log>>
hvars == <<h_pc, h_deadline, h_status, h_output_file, scheduled>>
rpvars == <<rp_pc, rp_extract, rp_out, rp_analysis>>
rdvars == <<rd_lines, docx_done, docx_doc, pdf_done, pdf_elements>>
orvars == <<or_pc, or_via, or_resume_ok, or_deadline, or_parsed, or_result, ro_result>>
pbvars == <<pb_pc, pb_extract, pb_out>>
fbvars == <<fb_data, fb_docs>>
clvars == <<cl_text, cl_out>>
cfvars == <<cf_kind, cf_file, cf_pc, cf_caught>>
mwvars == <<mw_doc, mw_file, mw_bytes, mw_result>>
pavars == <<pa_text, pa_done, pa_tiers, pa_outcome>>
pgvars == <<pg_pages, pg_next, pg_text, pg_value, pg_out>>
lcvars == <<lc_pc, lc_text, lc_record, lc_api_status>>
morevars == <<pavars, pgvars, lcvars>>
restvars == <<rdvars, orvars, pbvars, fbvars, clvars, cfvars, mwvars, morevars>>
vars == <<scenario, now, stalls, enabled, mr_pc, mr_msgs, attempt, started, thr,
          mr_deadline, mr_result, mr_value, waits, mr_fails, cv_pc, cv_format, cv_data_ok,
          cv_deadline, markdown, cv_source, fs, cv_result, cv_path, cv_log, h_pc,
          h_deadline, h_status, h_output_file, scheduled, rp_pc, rp_extract, rp_out,
          rp_analysis, restvars>>

(***************************************************************************)
(* GroqClient._make_request                                                *)
(***************************************************************************)
\* a validation that looks at the 'role' key only
MessagesValid_RoleOnly(msgs) ==
    \A i \in 1..Len(msgs) : "role" \in msgs[i]

\* groq_client.py 105-107: every message must have both keys
MessagesValid(msgs) ==
    \A i \in 1..Len(msgs) : "role" \in msgs[i] /\ "content" \in msgs[i]

\* a loop that gives up one attempt early
LastAttempt_OffByOne(a) == a = max_retries - 1

\* groq_client.py 158 and 180: the attempt that is not retried
LastAttempt(a) == a = max_retries

\* a backoff that does not grow
BackoffDelay_Constant(a) == retry_delay

\* groq_client.py 163 and 184: the backoff slept after failed attempt a
BackoffDelay(a) == retry_delay * (a + 1)

\* groq_client.py 140-143: the completion is accepted when it has choices;
\* the content of the first choice is returned as it is
ResponseAccepted(outcome) == outcome \in Contents

\* a handler that treats the CancelledError as one more failed attempt
CancelPropagates_Swallowed == FALSE

\* groq_client.py 175-177: a CancelledError (a BaseException, which the
\* except Exception clauses at 165 and 179 do not catch) is re-raised
CancelPropagates == TRUE

\* groq_client.py 133: a new task, and with it a new worker thread, per attempt
StartAttempt(a) ==
    /\ mr_pc' = "in_flight"
    /\ attempt' = a
    /\ started' = started + 1
    /\ thr' = [thr EXCEPT ![a] = "running"]
    /\ mr_deadline' = now + AttemptTimeout

\* groq_client.py 158-163 and 179-184: a failed attempt either ends the call
\* with the exception or sleeps the backoff and goes round the loop
FailAttempt(kind) ==
    /\ mr_fails' = Append(mr_fails, kind)
    /\ IF LastAttempt(attempt)
       THEN /\ mr_pc' = "done"
            /\ mr_result' = kind
            /\ mr_deadline' = 0
            /\ UNCHANGED <<attempt, started, waits>>
       ELSE /\ mr_pc' = "backoff"
            /\ mr_deadline' = now + BackoffDelay(attempt)
            /\ waits' = Append(waits, BackoffDelay(attempt))
            /\ UNCHANGED <<attempt, started, mr_result>>

\* groq_client.py 98-109: the configuration check, the validation of the
\* messages and the first iteration of the loop up to its await
EnterMakeRequest(msgs) ==
    /\ mr_msgs' = msgs
    /\ IF ~enabled
       THEN /\ mr_pc' = "done"
            /\ mr_result' = "not_configured"
            /\ UNCHANGED <<attempt, started, thr, mr_deadline>>
       ELSE IF ~MessagesValid(msgs)
       THEN /\ mr_pc' = "done"
            /\ mr_result' = "malformed_request"
            /\ UNCHANGED <<attempt, started, thr, mr_deadline>>
       ELSE /\ StartAttempt(0)
            /\ UNCHANGED mr_result
    /\ UNCHANGED <<mr_value, waits, mr_fails>>

\* the CancelledError thrown into _make_request at its await (137, 163 or 184)
CancelMakeRequest ==
    IF CancelPropagates
    THEN /\ mr_pc' = "done"
         /\ mr_result' = "cancelled"
         /\ mr_deadline' = 0
         /\ UNCHANGED <<mr_msgs, attempt, started, thr, mr_value, waits, mr_fails>>
    ELSE /\ FailAttempt("cancelled")
         /\ UNCHANGED <<mr_msgs, thr, mr_value>>

(***************************************************************************)
(* The event loop: timers and time.                                        *)
(***************************************************************************)
\* the deadlines of the timers that are armed
ActiveDeadlines ==
    (IF mr_pc \in {"in_flight", "backoff"} THEN {mr_deadline} ELSE {})
    \cup (IF cv_pc = "ai" THEN {cv_deadline} ELSE {})
    \cup (IF h_pc = "waiting" THEN {h_deadline} ELSE {})
    \cup (IF or_pc = "ai" THEN {or_deadline} ELSE {})

\* a timer fires once its deadline is reached, earliest deadline first
Due(d) == now >= d /\ \A e \in ActiveDeadlines : d <= e

\* a coroutine whose await has completed is ready to run: the loop runs it
\* before it waits for the next timer
TaskReady ==
    \/ cv_pc = "ai" /\ mr_pc = "done"
    \/ cv_pc = "render"
    \/ h_pc = "waiting" /\ cv_pc = "done"
    \/ rp_pc = "analyze" /\ mr_pc = "done"
    \/ or_pc = "ai" /\ mr_pc = "done"
    \/ pb_pc = "ai" /\ mr_pc = "done"
    \/ lc_pc = "ai" /\ mr_pc = "done"

\* the loop sleeps until the next timer is due
Tick ==
    /\ ~TaskReady
    /\ ActiveDeadlines # {}
    /\ \A e \in ActiveDeadlines : now < e
    /\ \E d \in ActiveDeadlines :
          /\ \A e \in ActiveDeadlines : d <= e
          /\ now' = d
    /\ UNCHANGED <<envvars, mrvars, cvvars, hvars, rpvars, restvars>>

\* the attempts whose worker thread is still running the API call
Running == {k \in Attempts : thr[k] = "running"}

\* time passes while an API call is in progress and no timer is due yet
Elapse ==
    /\ ~TaskReady
    /\ Running # {}
    /\ ActiveDeadlines # {}
    /\ \A e \in ActiveDeadlines : now + ApiLatency < e
    /\ now' = now + ApiLatency
    /\ UNCHANGED <<envvars, mrvars, cvvars, hvars, rpvars, restvars>>

\* synchronous work on the loop (cv_generator.py 84-89 renders without
\* yielding; so does every other request served by this loop) holds up all
\* timers while this run waits for them: time passes and no callback runs
Stall ==
    /\ stalls < MaxStalls
    /\ ~TaskReady
    /\ ActiveDeadlines # {}
    /\ now' = now + StallTime
    /\ stalls' = stalls + 1
    /\ UNCHANGED <<scenario, enabled, mrvars, cvvars, hvars, rpvars, restvars>>

(***************************************************************************)
(* GroqClient._make_request: the steps at its await points.                *)
(***************************************************************************)
\* groq_client.py 133, 151-156: task.cancel() cancels the asyncio task that
\* awaits asyncio.to_thread; the worker thread itself cannot be cancelled
\* and runs the API call to its end
ThreadAfterTaskCancel(state) == state

\* the worker thread of attempt k ends with outcome o.  If _make_request is
\* still awaiting it (137) the outcome is delivered: 140-147 on a completion,
\* 165-173 and 179-184 on an exception.  Otherwise the outcome is dropped.
ThreadReturns(k, o) ==
    /\ thr[k] = "running"
    /\ thr' = [thr EXCEPT ![k] = "finished"]
    /\ IF mr_pc = "in_flight" /\ k = attempt
       THEN IF ResponseAccepted(o)
            THEN /\ mr_pc' = "done"
                 /\ mr_result' = "success"
                 /\ mr_value' = o
                 /\ mr_deadline' = 0
                 /\ UNCHANGED <<attempt, started, waits, mr_fails>>
            ELSE /\ FailAttempt(IF o = "api_error" THEN "api_error" ELSE "invalid_response")
                 /\ UNCHANGED mr_value
       ELSE UNCHANGED <<mr_pc, attempt, started, mr_deadline, mr_result, mr_value, waits, mr_fails>>
    /\ UNCHANGED <<mr_msgs, now, envvars, cvvars, hvars, rpvars, restvars>>

\* groq_client.py 137, 149-163: wait_for gives up after 60 seconds
AttemptTimesOut ==
    /\ mr_pc = "in_flight"
    /\ Due(mr_deadline)
    /\ FailAttempt("timeout")
    /\ thr' = [thr EXCEPT ![attempt] = ThreadAfterTaskCancel(thr[attempt])]
    /\ UNCHANGED <<mr_msgs, mr_value, now, envvars, cvvars, hvars, rpvars, restvars>>

\* groq_client.py 163, 184 and 109: the sleep ends, the next iteration starts
BackoffEnds ==
    /\ mr_pc = "backoff"
    /\ Due(mr_deadline)
    /\ StartAttempt(attempt + 1)
    /\ UNCHANGED <<mr_msgs, mr_result, mr_value, waits, mr_fails, now, envvars, cvvars, hvars, rpvars, restvars>>

\* a caller of _make_request with arbitrary messages
CallMakeRequest ==
    /\ scenario = "request"
    /\ mr_pc = "idle"
    /\ \E msgs \in SeqsUpTo(Message, MaxMsgs) : EnterMakeRequest(msgs)
    /\ UNCHANGED <<now, envvars, cvvars, hvars, rpvars, restvars>>

\* that caller is cancelled while it awaits _make_request
CallerCancelled ==
    /\ scenario = "request"
    /\ mr_pc \in {"in_flight", "backoff"}
    /\ CancelMakeRequest
    /\ UNCHANGED <<now, envvars, cvvars, hvars, rpvars, restvars>>

(***************************************************************************)
(* CVGenerator.generate_cv and GroqClient.generate_cv                      *)
(***************************************************************************)
SupportedFormats == {"docx", "md", "pdf"}
\* formats a direct caller may pass; "txt" stands for every unsupported one
CallerFormats == SupportedFormats \cup {"txt"}
\* main.py 226 and 237-243: the Literal and the validator of
\* CVGenerationRequest.format together let only these two through
RequestFormats == {"docx", "pdf"}

Paths == {"out", "fallback"}
Absent == [state |-> "absent", fmt |-> "none", body |-> "none"]
File(st, f, b) == [state |-> st, fmt |-> f, body |-> b]

\* a str with at least one character
NonEmptyText(c) == c \notin {"empty", "none"}

\* a synthesizer that returns the empty string when it cannot build a document
FallbackCv_Empty(dataOk) == IF dataOk THEN "fallback_cv" ELSE "empty"

\* cv_generator.py 133-214: _generate_fallback_cv builds the document from
\* cv_data; if that raises it returns the fixed "# CV Generation Error" text
FallbackCv(dataOk) == IF dataOk THEN "fallback_cv" ELSE "error_cv"

\* what the docx and pdf libraries can do with a document they are given
\*   "ok"             the file is written and has bytes
\*   "zero_byte"      the call returns and the file is empty
\*   "raises"         the call raises and leaves no file
\*   "raises_partial" the call raises and leaves a file with some bytes
LibraryOutcomes == {"ok", "zero_byte", "raises", "raises_partial"}

\* cv_generator.py 83-89: what rendering markdown_content c to format f does;
\* lib is the behaviour of the docx/pdf library on this document.
\* "raises_empty": the call raises and leaves an empty file.
RenderOutcome(f, c, lib) ==
    IF f = "md"
    THEN \* 88-89: open(..., 'w') creates the file, f.write(None) raises TypeError
         IF c = "none" THEN "raises_empty"
         ELSE IF c = "empty" THEN "zero_byte"
         ELSE "ok"
    ELSE \* 241 and 303: markdown_content.split raises on None before any output
         IF c = "none" THEN "raises" ELSE lib

\* the file a render outcome leaves at the output path
FileAfterRender(o, f, c) ==
    CASE o = "ok" -> File("data", f, c)
      [] o = "zero_byte" -> File("empty", f, c)
      [] o = "raises_empty" -> File("empty", f, c)
      [] o = "raises_partial" -> File("data", f, "partial")
      [] OTHER -> Absent

\* cv_generator.py 91-95: the render is accepted when it did not raise and
\* the file exists with a size other than 0
RenderAccepted(o, file) == o \in {"ok", "zero_byte"} /\ file.state = "data"

\* a fallback that is tried for docx only
FallbackApplies_DocxOnly(f) == f = "docx"

\* cv_generator.py 108: the markdown fallback is tried for every format but md
FallbackApplies(f) == f # "md"

\* cv_generator.py 125-131: the finally clause removes output_file when it
\* exists and has size 0
FinallyCleanup(file) == IF file.state = "empty" THEN Absent ELSE file

\* cv_generator.py 49-78: the format check, then GroqClient.generate_cv
\* (groq_client.py 199-273) up to the await in _make_request
EnterGenerateCv(f, dataOk) ==
    /\ cv_format' = f
    /\ cv_data_ok' = dataOk
    /\ IF f \notin SupportedFormats
       THEN \* 49-52: ValueError
            /\ cv_pc' = "done"
            /\ cv_result' = "raised"
            /\ cv_log' = Append(cv_log, "unsupported_format")
            /\ UNCHANGED <<cv_deadline, markdown, cv_source, mrvars>>
       ELSE IF ~enabled
       THEN \* groq_client.py 199-200 raises, cv_generator.py 73-75 catches
            /\ cv_pc' = "render"
            /\ markdown' = FallbackCv(dataOk)
            /\ cv_source' = "fallback"
            /\ UNCHANGED <<cv_deadline, cv_result, cv_log, mrvars>>
       ELSE /\ cv_pc' = "ai"
            /\ cv_deadline' = now + CvBudget
            /\ EnterMakeRequest(RepoMessages)
            /\ UNCHANGED <<markdown, cv_source, cv_result, cv_log>>
    /\ UNCHANGED <<fs, cv_path>>

\* a direct caller of CVGenerator.generate_cv
CallGenerateCv ==
    /\ scenario = "cv"
    /\ cv_pc = "idle"
    /\ \E f \in CallerFormats, dataOk \in BOOLEAN : EnterGenerateCv(f, dataOk)
    /\ UNCHANGED <<now, envvars, hvars, rpvars, restvars>>

\* groq_client.py 273-279 and cv_generator.py 63-75: _make_request has ended,
\* GroqClient.generate_cv returns the response or, on an exception, the
\* document of _format_simple_cv; if that raises too, generate_cv of
\* CVGenerator falls back to _generate_fallback_cv
GroqGenerateCvReturns ==
    /\ cv_pc = "ai"
    /\ mr_pc = "done"
    /\ mr_result # "cancelled"
    /\ cv_pc' = "render"
    /\ cv_deadline' = 0
    /\ IF mr_result = "success"
       THEN markdown' = mr_value /\ cv_source' = "ai"
       ELSE IF cv_data_ok
       THEN markdown' = "simple_cv" /\ cv_source' = "simple"
       ELSE markdown' = FallbackCv(cv_data_ok) /\ cv_source' = "fallback"
    /\ UNCHANGED <<cv_format, cv_data_ok, fs, cv_result, cv_path, cv_log>>
    /\ UNCHANGED <<now, envvars, mrvars, hvars, rpvars, restvars>>

\* cv_generator.py 63-71: the 90 seconds are over; wait_for cancels
\* GroqClient.generate_cv, whose except Exception (groq_client.py 276) does
\* not catch the CancelledError, and raises TimeoutError
CvBudgetExpires ==
    /\ cv_pc = "ai"
    /\ mr_pc \in {"in_flight", "backoff"}
    /\ Due(cv_deadline)
    /\ CancelMakeRequest
    /\ cv_pc' = "render"
    /\ cv_deadline' = 0
    /\ markdown' = FallbackCv(cv_data_ok)
    /\ cv_source' = "fallback"
    /\ UNCHANGED <<cv_format, cv_data_ok, fs, cv_result, cv_path, cv_log>>
    /\ UNCHANGED <<now, envvars, hvars, rpvars, restvars>>

\* cv_generator.py 77-131: everything after the AI step is synchronous
RenderCv(lib) ==
    /\ cv_pc = "render"
    /\ cv_pc' = "done"
    /\ LET o1 == RenderOutcome(cv_format, markdown, lib)
           f1 == FileAfterRender(o1, cv_format, markdown)
           \* 111-112: the fallback writes the same markdown_content
           o2 == RenderOutcome("md", markdown, "ok")
           f2 == FileAfterRender(o2, "md", markdown)
       IN  IF RenderAccepted(o1, f1)
           THEN \* 94-95
                /\ fs' = [fs EXCEPT !["out"] = FinallyCleanup(f1)]
                /\ cv_result' = "returned"
                /\ cv_path' = "out"
                /\ cv_log' = cv_log \o <<o1>>
           ELSE IF FallbackApplies(cv_format)
           THEN IF o2 \in {"ok", "zero_byte"}
                THEN \* 100-103 and 110-113
                     /\ fs' = [fs EXCEPT !["out"] = Absent,
                                         !["fallback"] = FinallyCleanup(f2)]
                     /\ cv_result' = "returned"
                     /\ cv_path' = "fallback"
                     /\ cv_log' = cv_log \o <<o1, "removed_output", "md_fallback_written">>
                ELSE \* 111-112 raises, 121-123
                     /\ fs' = [fs EXCEPT !["out"] = Absent,
                                         !["fallback"] = FinallyCleanup(f2)]
                     /\ cv_result' = "raised"
                     /\ cv_path' = cv_path
                     /\ cv_log' = cv_log \o <<o1, "removed_output", "md_fallback_failed">>
           ELSE \* 115 and 121-123
                /\ fs' = [fs EXCEPT !["out"] = Absent]
                /\ cv_result' = "raised"
                /\ cv_path' = cv_path
                /\ cv_log' = cv_log \o <<o1, "removed_output">>
    /\ UNCHANGED <<cv_format, cv_data_ok, cv_deadline, markdown, cv_source>>
    /\ UNCHANGED <<now, envvars, mrvars, hvars, rpvars, restvars>>

(***************************************************************************)
(* The /api/cv/generate handler                                            *)
(***************************************************************************)
\* main.py 1059-1082: the handler starts generate_cv inside asyncio.shield
\* and waits for it for at most 180 seconds
HandleCvRequest ==
    /\ scenario = "handler"
    /\ h_pc = "idle"
    /\ h_pc' = "waiting"
    /\ h_deadline' = now + HandlerBudget
    /\ \E f \in RequestFormats : EnterGenerateCv(f, TRUE)
    /\ UNCHANGED <<h_status, h_output_file, scheduled>>
    /\ UNCHANGED <<now, envvars, rpvars, restvars>>

\* main.py 1090-1109: content_type, filename and format of the answer are
\* all taken from request.format, which is the format generate_cv was
\* called with
DeclaredFormat == cv_format

\* main.py 1083-1121 and 1136-1158: generate_cv has ended
HandlerGetsResult ==
    /\ h_pc = "waiting"
    /\ cv_pc = "done"
    /\ h_pc' = "done"
    /\ h_deadline' = 0
    /\ IF cv_result = "returned"
       THEN /\ h_output_file' = cv_path
            \* 1087-1088 open() raises when the file is missing: 1113-1121, 1139
            /\ h_status' = IF fs[cv_path].state = "absent" THEN 500 ELSE 200
            \* 1101 and 1155-1157
            /\ scheduled' = scheduled \cup {cv_path}
       ELSE \* 1139-1144; output_file is still None at 1155
            /\ h_status' = 500
            /\ UNCHANGED <<h_output_file, scheduled>>
    /\ UNCHANGED <<now, envvars, mrvars, cvvars, rpvars, restvars>>

\* main.py 1076-1082 and 1123-1128: the 180 seconds are over.  wait_for
\* cancels the shield, not generate_cv, which runs on (or has just ended
\* without the handler having been resumed with its result); output_file is
\* None, so 1155 schedules nothing
HandlerTimesOut ==
    /\ h_pc = "waiting"
    /\ Due(h_deadline)
    /\ h_pc' = "done"
    /\ h_deadline' = 0
    /\ h_status' = 504
    /\ UNCHANGED <<h_output_file, scheduled>>
    /\ UNCHANGED <<now, envvars, mrvars, cvvars, rpvars, restvars>>

(***************************************************************************)
(* ResumeProcessor.process_resume                                          *)
(***************************************************************************)
\* what resume_processor.py 61-83 finds: the file is missing, its type is
\* unsupported, extraction raises (_extract_text returns ""), the text is
\* empty or blank, or there is text
ExtractOutcomes == {"missing_file", "unsupported_type", "extract_fails", "blank", "text"}

\* the methods class ResumeProcessor defines (resume_processor.py 31-337)
ResumeProcessorMethods ==
    {"process_resume", "_clean_extracted_text", "_get_file_type", "_extract_text",
     "_extract_text_from_pdf", "_extract_text_from_docx", "_analyze_with_ai",
     "_extract_basic_info", "_extract_contact_info", "_extract_summary",
     "_extract_experience", "_extract_education", "_extract_skills",
     "_extract_projects", "_get_file_stats"}

\* resume_processor.py 250-266: the response is a str from which
\* json.loads, after the fence has been stripped, gives a dict
ParsesToDict(c) == c \in {"json", "fenced_json"}

\* resume_processor.py 61-92
CallProcessResume ==
    /\ scenario = "resume"
    /\ rp_pc = "idle"
    /\ \E x \in ExtractOutcomes :
          /\ rp_extract' = x
          /\ IF x = "text"
             THEN /\ rp_pc' = "analyze"
                  /\ EnterMakeRequest(RepoMessages)
                  /\ UNCHANGED <<rp_out, rp_analysis>>
             ELSE /\ rp_pc' = "done"
                  /\ rp_out' = "error"
                  /\ UNCHANGED <<rp_analysis, mrvars>>
    /\ UNCHANGED <<now, envvars, cvvars, hvars, restvars>>

\* resume_processor.py 249-274 and 94-103: _make_request has ended.  270 and
\* 274 call self._basic_text_extraction; when the class has no such method
\* the AttributeError leaves _analyze_with_ai and 100-103 return the error
AnalyzeReturns ==
    /\ rp_pc = "analyze"
    /\ mr_pc = "done"
    /\ rp_pc' = "done"
    /\ IF mr_result = "success" /\ ParsesToDict(mr_value)
       THEN rp_out' = "result" /\ rp_analysis' = "ai"
       ELSE IF "_basic_text_extraction" \in ResumeProcessorMethods
       THEN rp_out' = "result" /\ rp_analysis' = "skeleton"
       ELSE rp_out' = "error" /\ rp_analysis' = rp_analysis
    /\ UNCHANGED rp_extract
    /\ UNCHANGED <<now, envvars, mrvars, cvvars, hvars, restvars>>

(***************************************************************************)
(* ResumeProcessor._extract_text_from_pdf                                  *)
(***************************************************************************)
\* what page.extract_text() does on a page: it returns a text with content,
\* a text of whitespace only, the empty string, or it raises
PageOutcomes == {"text", "blank", "empty", "raises"}

\* a loop that lets the exception of a page out
PageErrorAborts_Raise == TRUE

\* resume_processor.py 189-191: the except of the page ends with continue
PageErrorAborts == FALSE

\* a piece of the extracted string: the text of a page, recorded by the
\* number of the page, or a newline
Newline == [nl |-> TRUE, page |-> 0]

\* resume_processor.py 186-188: the page's text is appended if it is truthy
PageText(pages, i) ==
    IF pages[i] \in {"text", "blank"} THEN <<[nl |-> FALSE, page |-> i]>> ELSE <<>>

RECURSIVE JoinLines(_)
\* resume_processor.py 196: '\n'.join(text)
JoinLines(ts) ==
    IF Len(ts) = 0 THEN <<>>
    ELSE IF Len(ts) = 1 THEN <<ts[1]>>
    ELSE <<ts[1], Newline>> \o JoinLines(Tail(ts))

\* resume_processor.py 78-80: not text or not text.strip()
NothingExtracted(pages, value) ==
    \A k \in 1..Len(value) : value[k].nl \/ pages[value[k].page] = "blank"

\* resume_processor.py 184-191: one iteration of the loop over reader.pages.
\* An exception that leaves the loop goes through 197-199 to the except of
\* _extract_text (178-180), which returns "", and process_resume returns
\* the error of 80-83
ExtractPdfPage ==
    /\ scenario = "pdf"
    /\ pg_out = "none"
    /\ pg_next <= Len(pg_pages)
    /\ IF pg_pages[pg_next] = "raises" /\ PageErrorAborts
       THEN /\ pg_out' = "error"
            /\ UNCHANGED <<pg_next, pg_text, pg_value>>
       ELSE /\ pg_next' = pg_next + 1
            /\ pg_text' = pg_text \o PageText(pg_pages, pg_next)
            /\ UNCHANGED <<pg_value, pg_out>>
    /\ UNCHANGED pg_pages
    /\ UNCHANGED <<now, envvars, mrvars, cvvars, hvars, rpvars, rdvars, orvars, pbvars, fbvars, clvars, cfvars, mwvars, pavars, lcvars>>

\* resume_processor.py 193-199, 178-180 and 77-83: the loop is over
PdfExtractionEnds ==
    /\ scenario = "pdf"
    /\ pg_out = "none"
    /\ pg_next > Len(pg_pages)
    /\ pg_value' = JoinLines(pg_text)      \* "" when 193-194 raise
    /\ pg_out' = IF NothingExtracted(pg_pages, JoinLines(pg_text)) THEN "error" ELSE "text"
    /\ UNCHANGED <<pg_pages, pg_next, pg_text>>
    /\ UNCHANGED <<now, envvars, mrvars, cvvars, hvars, rpvars, rdvars, orvars, pbvars, fbvars, clvars, cfvars, mwvars, pavars, lcvars>>

(***************************************************************************)
(* CVGenerator._create_docx and CVGenerator._create_pdf                    *)
(***************************************************************************)
\* a line of markdown_content, after line.strip(), by what it starts with:
\*   "h1" '# ', "h2" '## ', "h3" '### ', "bullet" '- ', "blank" nothing left,
\*   "text" anything else
LineKinds == {"h1", "h2", "h3", "bullet", "text", "blank"}

\* python-docx: a paragraph has a style and the runs that were added to it;
\* a run is recorded by the kind of the line its text came from
DocxElement(style, line) == [style |-> style, runs |-> <<line>>]

\* cv_generator.py 219: doc.add_heading(level=level)
HeadingStyle(line) ==
    CASE line = "h1" -> "Heading 1"
      [] line = "h2" -> "Heading 2"
      [] line = "h3" -> "Heading 3"

\* current_paragraph.add_run: the run goes to the paragraph that is open,
\* which is the last one added to the document
AddRun(elems, line) ==
    [elems EXCEPT ![Len(elems)].runs = Append(@, line)]

\* a loop in which a heading or an empty line leaves current_paragraph as
\* it is
DocxLine_KeepsOpen(acc, line) ==
    CASE line = "blank" -> acc
      [] line \in {"h1", "h2", "h3"} ->
            [elems |-> Append(acc.elems, DocxElement(HeadingStyle(line), line)),
             open |-> acc.open]
      [] line = "bullet" ->
            IF ~acc.open
            THEN [elems |-> Append(acc.elems, DocxElement("List Bullet", line)),
                  open |-> TRUE]
            ELSE [elems |-> AddRun(acc.elems, line), open |-> TRUE]
      [] OTHER ->
            IF ~acc.open
            THEN [elems |-> Append(acc.elems, DocxElement("Normal", line)),
                  open |-> TRUE]
            ELSE [elems |-> AddRun(acc.elems, line), open |-> TRUE]

\* cv_generator.py 244-272: one iteration of the loop of _create_docx;
\* acc.open says that current_paragraph is not None
DocxLine(acc, line) ==
    CASE line = "blank" -> [elems |-> acc.elems, open |-> FALSE]
      [] line \in {"h1", "h2", "h3"} ->
            [elems |-> Append(acc.elems, DocxElement(HeadingStyle(line), line)),
             open |-> FALSE]
      [] line = "bullet" ->
            \* 263-265: a new list paragraph only when no paragraph is open
            IF ~acc.open
            THEN [elems |-> Append(acc.elems, DocxElement("List Bullet", line)),
                  open |-> TRUE]
            ELSE [elems |-> AddRun(acc.elems, line), open |-> TRUE]
      [] OTHER ->
            \* 268-272
            IF ~acc.open
            THEN [elems |-> Append(acc.elems, DocxElement("Normal", line)),
                  open |-> TRUE]
            ELSE [elems |-> AddRun(acc.elems, line), open |-> TRUE]

RECURSIVE DocxScan(_, _)
\* cv_generator.py 241-272: the loop over the first n lines
DocxScan(ls, n) ==
    IF n = 0 THEN [elems |-> <<>>, open |-> FALSE]
    ELSE DocxLine(DocxScan(ls, n - 1), ls[n])

\* cv_generator.py 235-277: the paragraphs of the document that is saved
create_docx(ls) == DocxScan(ls, Len(ls)).elems

\* cv_generator.py 302-325: the flowables one line adds in _create_pdf
PdfLine(line) ==
    CASE line = "blank" -> <<[flowable |-> "Spacer", style |-> "12", mark |-> "none"]>>
      [] line = "h3" -> <<[flowable |-> "Paragraph", style |-> "Heading3", mark |-> "b"],
                          [flowable |-> "Spacer", style |-> "6", mark |-> "none"]>>
      [] line = "h2" -> <<[flowable |-> "Paragraph", style |-> "Heading2", mark |-> "u"],
                          [flowable |-> "Spacer", style |-> "6", mark |-> "none"]>>
      [] line = "h1" -> <<[flowable |-> "Paragraph", style |-> "Title", mark |-> "none"],
                          [flowable |-> "Spacer", style |-> "6", mark |-> "none"]>>
      [] line = "bullet" -> <<[flowable |-> "Paragraph", style |-> "NormalSpaced", mark |-> "bullet"],
                              [flowable |-> "Spacer", style |-> "6", mark |-> "none"]>>
      [] OTHER -> <<[flowable |-> "Paragraph", style |-> "NormalSpaced", mark |-> "none"],
                    [flowable |-> "Spacer", style |-> "6", mark |-> "none"]>>

RECURSIVE PdfScan(_, _)
\* cv_generator.py 300-325: the loop over the first n lines
PdfScan(ls, n) ==
    IF n = 0 THEN <<>> ELSE PdfScan(ls, n - 1) \o PdfLine(ls[n])

\* cv_generator.py 279-331: the elements handed to doc.build
create_pdf(ls) == PdfScan(ls, Len(ls))

\* _create_docx is applied to the lines
CreateDocx ==
    /\ scenario = "render"
    /\ ~docx_done
    /\ docx_done' = TRUE
    /\ docx_doc' = create_docx(rd_lines)
    /\ UNCHANGED <<rd_lines, pdf_done, pdf_elements>>
    /\ UNCHANGED <<now, envvars, mrvars, cvvars, hvars, rpvars, orvars, pbvars, fbvars, clvars, cfvars, mwvars, morevars>>

\* _create_pdf is applied to the lines
CreatePdf ==
    /\ scenario = "render"
    /\ ~pdf_done
    /\ pdf_done' = TRUE
    /\ pdf_elements' = create_pdf(rd_lines)
    /\ UNCHANGED <<rd_lines, docx_done, docx_doc>>
    /\ UNCHANGED <<now, envvars, mrvars, cvvars, hvars, rpvars, orvars, pbvars, fbvars, clvars, cfvars, mwvars, morevars>>

(***************************************************************************)
(* GroqClient.optimize_resume and ResumeOptimizer.optimize_resume          *)
(***************************************************************************)
\* a Python float: finite (with its value), nan, inf or -inf
Fin(n) == [k |-> "fin", v |-> n]
NaN == [k |-> "nan", v |-> 0]
PosInf == [k |-> "pinf", v |-> 0]
NegInf == [k |-> "ninf", v |-> 0]

\* x < y on floats: every comparison with nan is False
Lt(x, y) ==
    CASE x.k = "nan" \/ y.k = "nan" -> FALSE
      [] x.k = "ninf" -> y.k # "ninf"
      [] x.k = "pinf" -> FALSE
      [] y.k = "pinf" -> TRUE
      [] y.k = "ninf" -> FALSE
      [] OTHER -> x.v < y.v

\* Python's min(a, b) and max(a, b): the first argument unless the second
\* is smaller (greater)
PyMin(a, b) == IF Lt(b, a) THEN b ELSE a
PyMax(a, b) == IF Lt(a, b) THEN b ELSE a

\* the values the 'score' of the parsed object can have: a JSON number
\* (below, inside and above the range), NaN and Infinity (json.loads accepts
\* them), an integer too large for a float, a string that is a number, a
\* string that is not, null, a list; "absent": the key is missing
ScoreNumbers == {-5, 0, 85, 100, 250}
ScoreValues ==
    {[t |-> "number", f |-> Fin(n)] : n \in ScoreNumbers}
    \cup {[t |-> "number", f |-> x] : x \in {NaN, PosInf, NegInf}}
    \cup {[t |-> "numeric_string", f |-> Fin(n)] : n \in {85, 250}}
    \cup {[t |-> x, f |-> Fin(0)] : x \in {"huge_int", "string", "null", "list", "absent"}}

\* float(x): the float, or the exception it raises
PyFloat(x) ==
    CASE x.t \in {"number", "numeric_string"} -> [exc |-> "none", f |-> x.f]
      [] x.t = "huge_int" -> [exc |-> "OverflowError", f |-> Fin(0)]
      [] x.t = "string" -> [exc |-> "ValueError", f |-> Fin(0)]
      [] OTHER -> [exc |-> "TypeError", f |-> Fin(0)]

\* a clamp that has a lower limit only
ClampScore_NoUpper(f) == PyMax(Fin(0), f)

\* groq_client.py 461: max(0, min(100, float(result["score"])))
ClampScore(f) == PyMax(Fin(0), PyMin(Fin(100), f))

\* optimizer.py 75: min(max(float(result["score"]), 0), 100)
OptimizerClampScore(f) == PyMin(PyMax(f, Fin(0)), Fin(100))

\* the object parsed from the response, by what the code looks at
SuggestionKinds == {"list", "string", "other", "absent"}
ParsedObjects ==
    [optimized_text : {"present", "absent"}, score : ScoreValues,
     suggestions : SuggestionKinds]
NoObject == [optimized_text |-> "absent", score |-> [t |-> "absent", f |-> Fin(0)],
             suggestions |-> "absent"]

\* groq_client.py 452-455
required_fields == {"optimized_text", "score", "suggestions"}
HasField(obj, field) ==
    CASE field = "optimized_text" -> obj.optimized_text # "absent"
      [] field = "score" -> obj.score.t # "absent"
      [] field = "suggestions" -> obj.suggestions # "absent"

\* a result: status, the text it carries ("original": the resume_text that
\* was passed in, "parsed": the optimized_text of the parsed object), score
NoResult == [status |-> "none", optimized_text |-> "none", score |-> Fin(0)]
ErrorResult == [status |-> "error", optimized_text |-> "original", score |-> Fin(0)]

\* groq_client.py 435-449: json.loads of the whole text, else of the
\* interior of a fence; a dict comes out of a JSON object only
ResponseParses(c) == c \in {"json", "fenced_json", "json_list"}

\* groq_client.py 431-489: the result made from response c whose JSON
\* value, if it is an object, is obj
InterpretOptimization(c, obj) ==
    IF ~ResponseParses(c) THEN ErrorResult               \* 433, 449, 476-489
    ELSE IF c = "json_list" THEN ErrorResult             \* 453-455 on a list
    ELSE IF \E field \in required_fields : ~HasField(obj, field)
    THEN ErrorResult                                     \* 453-455
    ELSE IF PyFloat(obj.score).exc = "OverflowError" THEN ErrorResult  \* 461, 476
    ELSE IF obj.suggestions = "other" THEN ErrorResult   \* 467, 476
    ELSE [status |-> "success", optimized_text |-> "parsed",
          score |-> IF PyFloat(obj.score).exc = "none"
                    THEN ClampScore(PyFloat(obj.score).f)
                    ELSE Fin(0)]                         \* 460-463

\* optimizer.py 67-89: what ResumeOptimizer makes of the client's result
OptimizerResult(res) ==
    [status |-> "success", optimized_text |-> res.optimized_text,
     score |-> OptimizerClampScore(res.score)]

\* GroqClient.optimize_resume returns res; its caller, if it is
\* ResumeOptimizer.optimize_resume, goes on without yielding
FinishOptimize(res) ==
    /\ or_pc' = "done"
    /\ or_deadline' = 0
    /\ or_result' = res
    /\ ro_result' = IF or_via THEN OptimizerResult(res) ELSE NoResult

\* groq_client.py 347-418 and optimizer.py 41-68: the call up to the await
CallOptimizeResume ==
    /\ scenario = "optimize"
    /\ or_pc = "idle"
    /\ \E via \in BOOLEAN, longEnough \in BOOLEAN :
          /\ or_via' = via
          /\ or_resume_ok' = longEnough
          /\ IF ~longEnough
             THEN \* optimizer.py 43-52 returns before the client is called;
                  \* groq_client.py 347-357
                  /\ or_pc' = "done"
                  /\ or_result' = IF via THEN NoResult ELSE ErrorResult
                  /\ ro_result' = IF via THEN ErrorResult ELSE NoResult
                  /\ UNCHANGED <<or_deadline, mrvars>>
             ELSE IF ~enabled
             THEN \* groq_client.py 359-368
                  /\ or_pc' = "done"
                  /\ or_result' = ErrorResult
                  /\ ro_result' = IF via THEN OptimizerResult(ErrorResult) ELSE NoResult
                  /\ UNCHANGED <<or_deadline, mrvars>>
             ELSE /\ or_pc' = "ai"
                  /\ or_deadline' = now + OptimizeBudget
                  /\ EnterMakeRequest(RepoMessages)
                  /\ UNCHANGED <<or_result, ro_result>>
    /\ UNCHANGED or_parsed
    /\ UNCHANGED <<now, envvars, cvvars, hvars, rpvars, rdvars, pbvars, fbvars, clvars, cfvars, mwvars, morevars>>

\* groq_client.py 415-497: _make_request has ended
OptimizeReturns ==
    /\ or_pc = "ai"
    /\ mr_pc = "done"
    /\ IF mr_result = "success"
       THEN \E obj \in ParsedObjects :
               /\ or_parsed' = IF mr_value \in {"json", "fenced_json"} THEN obj ELSE NoObject
               /\ FinishOptimize(InterpretOptimization(mr_value, obj))
       ELSE \* 424-427 re-raise, 490-497
            /\ FinishOptimize(ErrorResult)
            /\ UNCHANGED or_parsed
    /\ UNCHANGED <<or_via, or_resume_ok>>
    /\ UNCHANGED <<now, envvars, mrvars, cvvars, hvars, rpvars, rdvars, pbvars, fbvars, clvars, cfvars, mwvars, morevars>>

\* groq_client.py 415-423 and 490-497: the 120 seconds are over; wait_for
\* cancels _make_request and raises TimeoutError
OptimizeBudgetExpires ==
    /\ or_pc = "ai"
    /\ mr_pc \in {"in_flight", "backoff"}
    /\ Due(or_deadline)
    /\ CancelMakeRequest
    /\ FinishOptimize(ErrorResult)
    /\ UNCHANGED <<or_via, or_resume_ok, or_parsed>>
    /\ UNCHANGED <<now, envvars, cvvars, hvars, rpvars, rdvars, pbvars, fbvars, clvars, cfvars, mwvars, morevars>>

(***************************************************************************)
(* GroqClient.optimize_resume: from the response text to a JSON value       *)
(***************************************************************************)
\* a response is a sequence of tokens separated by single spaces:
\*   "prose"   words without braces or backticks
\*   "object"  the text of one JSON object
\*   "broken"  text in braces that is not JSON
\*   "open"    three backticks, 'json', newline
\*   "close"   newline, three backticks
ResponseTokens == {"prose", "object", "broken", "open", "close"}
ResponseTexts == SeqsUpTo(ResponseTokens, MaxTokens)

\* json.loads(s.strip()) returns: s is one JSON value and nothing else
JsonLoads(ts) == ts = <<"object">>

\* groq_client.py 444, first re.search: '```(?:json)?\n(.*?)\n```' with
\* DOTALL matches at the leftmost opening that has a closing after it and
\* stops at the first closing; group(1) is what lies between
Openings(ts) ==
    {i \in 1..Len(ts) : ts[i] = "open" /\ \E j \in (i + 1)..Len(ts) : ts[j] = "close"}
HasFence(ts) == Openings(ts) # {}
FenceInterior(ts) ==
    LET o == CHOOSE i \in Openings(ts) : \A k \in Openings(ts) : i <= k
        c == CHOOSE j \in (o + 1)..Len(ts) :
                 /\ ts[j] = "close"
                 /\ \A k \in (o + 1)..(j - 1) : ts[k] # "close"
    IN  SubSeq(ts, o + 1, c - 1)

\* groq_client.py 444, second re.search: '({.*})' with DOTALL matches from
\* the first '{' to the last '}'
Braced(ts) == {i \in 1..Len(ts) : ts[i] \in {"object", "broken"}}
HasBraces(ts) == Braced(ts) # {}
BraceSpan(ts) ==
    LET f == CHOOSE i \in Braced(ts) : \A k \in Braced(ts) : i <= k
        l == CHOOSE i \in Braced(ts) : \A k \in Braced(ts) : i >= k
    IN  SubSeq(ts, f, l)

\* groq_client.py 444: json_match = re.search(fence) or re.search(braces);
\* a match object is true, so the second search runs only when the first
\* finds nothing
JsonMatch(ts) ==
    IF HasFence(ts) THEN [tier |-> "fence", group |-> FenceInterior(ts)]
    ELSE IF HasBraces(ts) THEN [tier |-> "span", group |-> BraceSpan(ts)]
    ELSE [tier |-> "none", group |-> <<>>]

\* groq_client.py 431-450 and 476: the texts handed to json.loads and how
\* the block ends; a JSONDecodeError of the second json.loads (447) is not
\* caught before the except of line 476
ParseResponse(ts) ==
    IF JsonLoads(ts)                                              \* 438
    THEN [tiers |-> <<"direct">>, outcome |-> "parsed"]
    ELSE IF JsonMatch(ts).tier = "none"                           \* 449-450
    THEN [tiers |-> <<"direct">>, outcome |-> "unparseable"]
    ELSE [tiers |-> <<"direct", JsonMatch(ts).tier>>,             \* 445-447
          outcome |-> IF JsonLoads(JsonMatch(ts).group) THEN "parsed"
                      ELSE "unparseable"]

\* the parsing block runs on the response
ParseOptimizeResponse ==
    /\ scenario = "parse"
    /\ ~pa_done
    /\ pa_done' = TRUE
    /\ pa_tiers' = ParseResponse(pa_text).tiers
    /\ pa_outcome' = ParseResponse(pa_text).outcome
    /\ UNCHANGED pa_text
    /\ UNCHANGED <<now, envvars, mrvars, cvvars, hvars, rpvars, rdvars, orvars, pbvars, fbvars, clvars, cfvars, mwvars, pgvars, lcvars>>

(***************************************************************************)
(* GroqClient.generate_cover_letter and the legacy cover-letter endpoint   *)
(***************************************************************************)
\* groq_client.py 511-540: the str generate_cover_letter returns.
\*   "error_message"  the text of 512 or of 540; None.strip() at 536 raises
\*                    and ends at 540 too
\*   "empty"          '' (the response was empty or blank)
\*   "letter"         the response, stripped
CoverLetterText(isEnabled, result, value) ==
    IF ~isEnabled THEN "error_message"                    \* 511-512
    ELSE IF result # "success" THEN "error_message"       \* 538-540
    ELSE IF value = "none" THEN "error_message"           \* 536, 538-540
    ELSE IF value = "empty" THEN "empty"
    ELSE "letter"

\* main.py 1479-1504: the endpoint has the text; it stores the row with
\* status "completed", sets api_call.status_code and returns the text.  When
\* the database raises, 1506-1517 set 500 and return a failure message
StoreCoverLetter(text) ==
    /\ lc_pc' = "done"
    /\ \E dbOk \in BOOLEAN :
          IF dbOk
          THEN /\ lc_text' = text
               /\ lc_record' = "completed"
               /\ lc_api_status' = 200
          ELSE /\ lc_text' = "failure_message"
               /\ lc_record' = "none"
               /\ lc_api_status' = 500

\* main.py 1468-1483 and groq_client.py 511-534: the endpoint records the
\* call with status_code 200 and calls generate_cover_letter, which returns at once when the client is disabled
\* and otherwise awaits _make_request with its one user message
CallGenerateCoverLetter ==
    /\ scenario = "cover"
    /\ lc_pc = "idle"
    /\ IF ~enabled
       THEN /\ StoreCoverLetter(CoverLetterText(enabled, "none", "none"))
            /\ UNCHANGED mrvars
       ELSE /\ lc_pc' = "ai"
            /\ lc_api_status' = 200                       \* main.py 1468-1475
            /\ EnterMakeRequest(<<WellFormedMessage>>)
            /\ UNCHANGED <<lc_text, lc_record>>
    /\ UNCHANGED <<now, envvars, cvvars, hvars, rpvars, rdvars, orvars, pbvars, fbvars, clvars, cfvars, mwvars, pavars, pgvars>>

\* groq_client.py 531-540 and main.py 1485-1504: _make_request has ended
CoverLetterReturns ==
    /\ lc_pc = "ai"
    /\ mr_pc = "done"
    /\ StoreCoverLetter(CoverLetterText(enabled, mr_result, mr_value))
    /\ UNCHANGED <<now, envvars, mrvars, cvvars, hvars, rpvars, rdvars, orvars, pbvars, fbvars, clvars, cfvars, mwvars, pavars, pgvars>>

(***************************************************************************)
(* PortfolioBuilder.build_from_resume                                      *)
(***************************************************************************)
\* what _extract_text_from_file (portfolio_builder.py 128-148) ends with:
\* it raises (the file cannot be opened, PyPDF2 fails), it returns a text
\* that is empty or blank, or it returns a text with content
PortfolioExtractOutcomes == {"raises", "blank", "text"}

\* portfolio_builder.py 335-341: the text json.loads is given is the whole
\* response or the interior of its fence
PortfolioParses(c) == c \in {"json", "fenced_json", "json_list"}

\* portfolio_builder.py 286-330: extraction, the prompt, and _make_request
\* up to its await; resume_text goes into the prompt as it is
CallBuildFromResume ==
    /\ scenario = "portfolio"
    /\ pb_pc = "idle"
    /\ \E x \in PortfolioExtractOutcomes :
          /\ pb_extract' = x
          /\ IF x = "raises"
             THEN \* 351-353
                  /\ pb_pc' = "done"
                  /\ pb_out' = "raised"
                  /\ UNCHANGED mrvars
             ELSE /\ pb_pc' = "ai"
                  /\ EnterMakeRequest(RepoMessages)
                  /\ UNCHANGED pb_out
    /\ UNCHANGED <<now, envvars, cvvars, hvars, rpvars, rdvars, orvars, fbvars, clvars, cfvars, mwvars, morevars>>

\* portfolio_builder.py 330-353: _make_request has ended; the response is
\* parsed and handed to _generate_portfolio, which returns the path of the
\* page or raises
BuildFromResumeReturns ==
    /\ pb_pc = "ai"
    /\ mr_pc = "done"
    /\ pb_pc' = "done"
    /\ IF mr_result = "success" /\ PortfolioParses(mr_value)
       THEN pb_out' \in {"returned", "raised"}
       ELSE pb_out' = "raised"
    /\ UNCHANGED pb_extract
    /\ UNCHANGED <<now, envvars, mrvars, cvvars, hvars, rpvars, rdvars, orvars, fbvars, clvars, cfvars, mwvars, morevars>>

(***************************************************************************)
(* CVGenerator._generate_fallback_cv                                       *)
(***************************************************************************)
\* cv_data, by what _generate_fallback_cv looks at.
\*   dict      cv_data is a dict (False: None, a list, ...)
\*   personal  "absent" no personal_info key, "empty_dict" {}, "full" a dict
\*             with every key, "null_summary" a dict whose summary is None,
\*             "not_dict" a value without .get
\*   work      "absent", "empty" [], "jobs" one job whose description is a
\*             list of two, "job_str_desc" one job whose description is a
\*             str, "job_no_desc" one job without description, "bad_job" a
\*             list holding a value that is no dict, "not_list" a number
\*   education "absent", "empty", "entries" one entry, "bad_entry"
\*   skills    "absent", "empty", "list" a list of str, "bad_list" a list
\*             holding a value that is no str, "string" a str
PersonalKinds == {"absent", "empty_dict", "full", "null_summary", "not_dict"}
WorkKinds == {"absent", "empty", "jobs", "job_str_desc", "job_no_desc", "bad_job", "not_list"}
EducationKinds == {"absent", "empty", "entries", "bad_entry"}
SkillsKinds == {"absent", "empty", "list", "bad_list", "string"}
CvDataInputs ==
    [dict : BOOLEAN, personal : PersonalKinds, work : WorkKinds,
     education : EducationKinds, skills : SkillsKinds]

\* a line of the document: what it starts with (as in LineKinds; "not_str"
\* for an element of lines that is no str) and what it says
Line(kind, text) == [kind |-> kind, text |-> text]
BlankLine == Line("blank", "")

\* the lines a part of the function appends, or the exception it raises
Appends(ls) == [exc |-> FALSE, lines |-> ls]
Raises == [exc |-> TRUE, lines |-> <<>>]

\* cv_generator.py 144 and 152-163: the header and the summary
PersonalLines(personal) ==
    CASE personal = "not_dict" -> Raises
      [] personal = "full" ->
            Appends(<<Line("h1", "name"), Line("text", "email | phone"),
                      Line("text", "LinkedIn"), Line("text", "GitHub"),
                      Line("text", "Location"),
                      BlankLine, Line("h2", "Summary"), Line("text", "summary")>>)
      [] personal = "null_summary" ->
            Appends(<<Line("h1", "name"), Line("text", "email | phone"),
                      BlankLine, Line("h2", "Summary"), Line("not_str", "None")>>)
      [] OTHER ->
            Appends(<<Line("h1", "Your Name"), Line("text", " | "),
                      BlankLine, Line("h2", "Summary"), Line("text", "default summary")>>)

\* the first lines of a job: 168-177
JobHead ==
    <<BlankLine, Line("h2", "Work Experience"),
      BlankLine, Line("h3", "title at company"), Line("text", "*dates*")>>

\* cv_generator.py 145 and 165-184: the section is appended if work_exp is
\* truthy
WorkLines(work) ==
    CASE work \in {"bad_job", "not_list"} -> Raises
      [] work = "jobs" ->
            Appends(JobHead \o <<BlankLine, Line("bullet", "desc"), Line("bullet", "desc")>>)
      [] work = "job_str_desc" ->
            Appends(JobHead \o <<BlankLine, Line("bullet", "desc")>>)
      [] work = "job_no_desc" -> Appends(JobHead)
      [] OTHER -> Appends(<<>>)

\* cv_generator.py 146 and 186-200
EducationLines(education) ==
    CASE education = "bad_entry" -> Raises
      [] education = "entries" ->
            Appends(<<BlankLine, Line("h2", "Education"),
                      BlankLine, Line("h3", "degree"), Line("text", "institution"),
                      Line("text", "*dates*")>>)
      [] OTHER -> Appends(<<>>)

\* cv_generator.py 147 and 202-208
SkillsLines(skills) ==
    CASE skills = "bad_list" -> Raises
      [] skills \in {"list", "string"} ->
            Appends(<<BlankLine, Line("h2", "Skills"), Line("text", "skills")>>)
      [] OTHER -> Appends(<<>>)

\* a synthesizer that lets its exception out
ErrorCvLines_Nothing == <<>>

\* cv_generator.py 212-214: what the except clause returns
ErrorCvLines ==
    <<Line("h1", "CV Generation Error"), BlankLine, Line("text", "Unable to generate CV.")>>

\* cv_generator.py 210: "\n".join(lines) raises on an element that is no str
JoinRaises(ls) == \E i \in 1..Len(ls) : ls[i].kind = "not_str"

\* cv_generator.py 133-214: the lines of the string that is returned
generate_fallback_cv(cv_data) ==
    LET p == PersonalLines(cv_data.personal)
        w == WorkLines(cv_data.work)
        e == EducationLines(cv_data.education)
        k == SkillsLines(cv_data.skills)
        ls == p.lines \o w.lines \o e.lines \o k.lines
    IN  IF ~cv_data.dict \/ p.exc \/ w.exc \/ e.exc \/ k.exc \/ JoinRaises(ls)
        THEN ErrorCvLines
        ELSE ls

\* groq_client.py 281-327: the lines of the string _format_simple_cv
\* returns, or the exception it lets out (it has no try of its own).  Every
\* section title is written with '# ', there is no summary, the titles are
\* written whether or not the section has entries, and the last bullet of a
\* description is followed directly by the Education title
format_simple_cv(cv_data) ==
    LET personal ==                                       \* 283, 288-294
            <<Line("h1", "Personal Information"), Line("text", "Name"),
              Line("text", "Email"), Line("text", "Phone"), Line("text", "Location"),
              Line("text", "LinkedIn"), Line("text", "Portfolio")>>
        job == <<Line("h3", "title at company"), Line("text", "dates"), BlankLine>>
        work ==                                           \* 296-308
            <<BlankLine, Line("h1", "Work Experience")>> \o
            CASE cv_data.work = "jobs" ->
                    job \o <<Line("bullet", "desc"), Line("bullet", "desc")>>
              [] cv_data.work = "job_str_desc" -> job \o <<Line("bullet", "desc")>>
              [] cv_data.work = "job_no_desc" -> job \o <<BlankLine>>
              [] OTHER -> <<BlankLine>>
        education ==                                      \* 310-322
            <<Line("h1", "Education")>> \o
            (IF cv_data.education = "entries"
             THEN <<Line("h3", "degree"), Line("text", "institution"), Line("text", "dates")>>
             ELSE <<>>)
        skills ==                                         \* 324-325
            <<BlankLine, Line("h1", "Skills")>> \o
            (IF cv_data.skills \in {"list", "string"} THEN <<Line("text", "skills")>> ELSE <<>>)
    IN  IF \/ ~cv_data.dict
           \/ cv_data.personal = "not_dict"
           \/ cv_data.work \in {"bad_job", "not_list"}
           \/ cv_data.education = "bad_entry"
           \/ cv_data.skills = "bad_list"
        THEN Raises
        ELSE Appends(personal \o work \o education \o skills)

\* a cv_data with every part filled in and of the expected types
FullCvData ==
    [dict |-> TRUE, personal |-> "full", work |-> "jobs", education |-> "entries",
     skills |-> "list"]

\* the lines of the documents the CV scenarios pass around by name:
\* "simple_cv" groq_client.py 279, "fallback_cv" and "error_cv"
\* cv_generator.py 71 and 75, each as built from a full cv_data
DocumentLines(doc) ==
    CASE doc = "simple_cv" -> format_simple_cv(FullCvData).lines
      [] doc = "fallback_cv" -> generate_fallback_cv(FullCvData)
      [] doc = "error_cv" -> ErrorCvLines
      [] OTHER -> <<>>

\* _generate_fallback_cv is called on the data, once more each time
CallGenerateFallbackCv ==
    /\ scenario = "fallback"
    /\ Len(fb_docs) < FallbackCalls
    /\ fb_docs' = Append(fb_docs, generate_fallback_cv(fb_data))
    /\ UNCHANGED fb_data
    /\ UNCHANGED <<now, envvars, mrvars, cvvars, hvars, rpvars, rdvars, orvars, pbvars, clvars, cfvars, mwvars, morevars>>

(***************************************************************************)
(* ResumeProcessor._clean_extracted_text                                   *)
(***************************************************************************)
\* a text is a sequence of characters.  "SP" space, "NL" newline, "FF" form
\* feed, "A" an upper-case letter, "a" a lower-case letter, "BULLET" U+2022;
\* "a_circumflex", "euro", "cent" are the three characters of the
\* replacement string at resume_processor.py 124, "EQ" is '='
InputChars == {"SP", "NL", "FF", "A", "a", "BULLET"}

\* what \s matches and what str.strip() strips
IsSpace(c) == c \in {"SP", "NL", "FF"}

RECURSIVE CollapseFrom(_, _)
CollapseFrom(t, i) ==
    IF i > Len(t) THEN <<>>
    ELSE IF IsSpace(t[i])
    THEN (IF i > 1 /\ IsSpace(t[i - 1]) THEN <<>> ELSE <<"SP">>) \o CollapseFrom(t, i + 1)
    ELSE <<t[i]>> \o CollapseFrom(t, i + 1)

\* resume_processor.py 120: re.sub(r'\s+', ' ', text)
CollapseWhitespace(t) == CollapseFrom(t, 1)

\* str.strip()
Strip(t) ==
    LET solid == {i \in 1..Len(t) : ~IsSpace(t[i])}
    IN  IF solid = {} THEN <<>>
        ELSE SubSeq(t, CHOOSE i \in solid : \A j \in solid : i <= j,
                       CHOOSE i \in solid : \A j \in solid : i >= j)

\* resume_processor.py 123: re.sub(r'\x0c', '', text)
RemoveFormFeed(t) == SelectSeq(t, LAMBDA c : c # "FF")

RECURSIVE ConvertBullets_SpaceAfter(_)
\* a conversion that puts a space after the bullet
ConvertBullets_SpaceAfter(t) ==
    IF t = <<>> THEN <<>>
    ELSE (IF Head(t) = "BULLET" THEN <<"a_circumflex", "euro", "cent", "SP">> ELSE <<Head(t)>>)
         \o ConvertBullets_SpaceAfter(Tail(t))

RECURSIVE ConvertBullets(_)
\* resume_processor.py 124: re.sub(r'•', <the three characters>, text)
ConvertBullets(t) ==
    IF t = <<>> THEN <<>>
    ELSE (IF Head(t) = "BULLET" THEN <<"a_circumflex", "euro", "cent">> ELSE <<Head(t)>>)
         \o ConvertBullets(Tail(t))

\* resume_processor.py 127: the pattern \n\s*([A-Z][A-Z\s]{5,})\n matched at
\* position i.  \s* is greedy and is followed by a letter, so the group
\* starts at the first character after i that is no whitespace; the group
\* is greedy too, so it ends before the last newline it can reach.
HeaderMinRest == 5
GroupStart(t, i) ==
    LET solid == {j \in (i + 1)..Len(t) : ~IsSpace(t[j])}
    IN  IF solid = {} THEN 0 ELSE CHOOSE j \in solid : \A m \in solid : j <= m
HeaderEnds(t, i) ==
    LET j == GroupStart(t, i)
    IN  IF t[i] # "NL" \/ j = 0 THEN {}
        ELSE IF t[j] # "A" THEN {}
        ELSE {e \in (j + 1 + HeaderMinRest)..Len(t) :
                 /\ t[e] = "NL"
                 /\ \A m \in (j + 1)..(e - 1) : t[m] = "A" \/ IsSpace(t[m])}
HeaderEnd(t, i) == CHOOSE e \in HeaderEnds(t, i) : \A f \in HeaderEnds(t, i) : e >= f

\* extracted texts with a line of upper-case letters and spaces between two
\* other lines, the line long enough for the pattern of resume_processor.py
\* 127
HeaderTexts ==
    {<<"a", "NL">> \o l \o <<"NL", "a">> :
        l \in {h \in SeqsUpTo({"A", "SP"}, MaxHeaderChars) :
                  Len(h) > HeaderMinRest /\ h[1] = "A"}}

\* str.title() on a text of upper-case letters and whitespace
Title(g) ==
    [k \in 1..Len(g) |->
        IF g[k] = "A" /\ k > 1 /\ g[k - 1] \in {"A", "a"} THEN "a" ELSE g[k]]

\* resume_processor.py 128: what the match is replaced with
HeaderReplacement(g) ==
    <<"NL", "NL">> \o Title(g) \o <<"NL">> \o [k \in 1..Len(g) |-> "EQ"] \o <<"NL">>

RECURSIVE HeadersFrom(_, _)
HeadersFrom(t, i) ==
    IF i > Len(t) THEN <<>>
    ELSE IF HeaderEnds(t, i) # {}
    THEN HeaderReplacement(SubSeq(t, GroupStart(t, i), HeaderEnd(t, i) - 1))
         \o HeadersFrom(t, HeaderEnd(t, i) + 1)
    ELSE <<t[i]>> \o HeadersFrom(t, i + 1)

\* resume_processor.py 127-129: re.sub over the whole text
NormalizeHeaders(t) == HeadersFrom(t, 1)

RECURSIVE NewlinesFrom(_, _)
NewlinesFrom(t, i) ==
    IF i > Len(t) THEN <<>>
    ELSE IF t[i] = "NL" /\ i > 2 /\ t[i - 1] = "NL" /\ t[i - 2] = "NL"
    THEN NewlinesFrom(t, i + 1)
    ELSE <<t[i]>> \o NewlinesFrom(t, i + 1)

\* resume_processor.py 132: re.sub(r'\n{3,}', '\n\n', text)
CollapseNewlines(t) == NewlinesFrom(t, 1)

\* resume_processor.py 105-134
clean_extracted_text(t) ==
    IF t = <<>> THEN <<>>
    ELSE Strip(CollapseNewlines(NormalizeHeaders(ConvertBullets(
             RemoveFormFeed(Strip(CollapseWhitespace(t)))))))

\* _clean_extracted_text is applied to the text, then to what it returned
CallCleanExtractedText ==
    /\ scenario = "clean"
    /\ Len(cl_out) < CleanCalls
    /\ cl_out' = Append(cl_out, clean_extracted_text(IF cl_out = <<>> THEN cl_text
                                                     ELSE cl_out[Len(cl_out)]))
    /\ UNCHANGED cl_text
    /\ UNCHANGED <<now, envvars, mrvars, cvvars, hvars, rpvars, rdvars, orvars, pbvars, fbvars, cfvars, mwvars, morevars>>

(***************************************************************************)
(* cleanup_file (main.py and utils/file_utils.py)                          *)
(***************************************************************************)
CleanupTaskIds == 1..CleanupTasks

\* "async": main.py 337-362, a background task whose check and remove run in
\* worker threads; "sync": file_utils.py 54-66, whose check and unlink are
\* two system calls that a worker thread of another task can come between
CleanupKinds == {"async", "sync"}

\* an except clause that expects one kind of failure only
CleanupCatches_PermissionOnly(exc) == exc = "PermissionError"

\* main.py 361 and file_utils.py 65: except Exception
CleanupCatches(exc) == exc \in {"FileNotFoundError", "PermissionError"}

\* main.py 355 and file_utils.py 63: os.path.exists / path.exists
CleanupChecks(t) ==
    /\ scenario = "cleanup"
    /\ cf_pc[t] = "start"
    /\ cf_pc' = [cf_pc EXCEPT ![t] = IF cf_file = "present" THEN "remove" ELSE "done"]
    /\ UNCHANGED <<cf_kind, cf_file, cf_caught>>
    /\ UNCHANGED <<now, envvars, mrvars, cvvars, hvars, rpvars, rdvars, orvars, pbvars, fbvars, clvars, mwvars, morevars>>

\* main.py 356-357, 361-362 and file_utils.py 64-66: os.remove / path.unlink;
\* on a path that is no longer there it raises FileNotFoundError
CleanupRemoves(t) ==
    /\ scenario = "cleanup"
    /\ cf_pc[t] = "remove"
    /\ IF cf_file = "present"
       THEN /\ cf_file' = "absent"
            /\ cf_pc' = [cf_pc EXCEPT ![t] = "done"]
            /\ UNCHANGED cf_caught
       ELSE IF CleanupCatches("FileNotFoundError")
       THEN /\ cf_pc' = [cf_pc EXCEPT ![t] = "done"]
            /\ cf_caught' = [cf_caught EXCEPT ![t] = TRUE]
            /\ UNCHANGED cf_file
       ELSE /\ cf_pc' = [cf_pc EXCEPT ![t] = "raised"]
            /\ UNCHANGED <<cf_file, cf_caught>>
    /\ UNCHANGED cf_kind
    /\ UNCHANGED <<now, envvars, mrvars, cvvars, hvars, rpvars, rdvars, orvars, pbvars, fbvars, clvars, mwvars, morevars>>

(***************************************************************************)
(* CVGenerator.generate_cv: the markdown branch of the render              *)
(***************************************************************************)
\* the characters of markdown_content: "#" an ASCII character, "NL" and "CR"
\* the two line-end characters, "BULLET" U+2022 (three bytes in UTF-8),
\* "SURROGATE" a lone surrogate (which UTF-8 cannot encode)
MdChars == {"#", "NL", "CR", "BULLET", "SURROGATE"}

\* markdown_content is a str of these characters, or None
NoneDoc == <<"None">>
MdDocuments == SeqsUpTo(MdChars, MaxMdChars) \cup {NoneDoc}

\* a text layer that writes line ends the way Windows does
LineSep_CRLF == <<"CR", "NL">>

\* open(output_file, 'w', ...): newline is None, so each '\n' written is
\* replaced by os.linesep; the model takes a POSIX host, where it is '\n'
LineSep == <<"NL">>

RECURSIVE TranslateNewlines(_)
TranslateNewlines(t) ==
    IF t = <<>> THEN <<>>
    ELSE (IF Head(t) = "NL" THEN LineSep ELSE <<Head(t)>>) \o TranslateNewlines(Tail(t))

\* encoding='utf-8': the bytes of one character
Utf8Char(c) ==
    CASE c = "#" -> <<35>>
      [] c = "NL" -> <<10>>
      [] c = "CR" -> <<13>>
      [] c = "BULLET" -> <<226, 128, 162>>

RECURSIVE Utf8Encode(_)
Utf8Encode(t) ==
    IF t = <<>> THEN <<>> ELSE Utf8Char(Head(t)) \o Utf8Encode(Tail(t))

\* errors is 'strict': f.write raises UnicodeEncodeError on a lone surrogate
Encodable(t) == \A i \in 1..Len(t) : t[i] # "SURROGATE"

RECURSIVE Utf8Decode(_)
\* the characters a sequence of bytes stands for
Utf8Decode(b) ==
    IF b = <<>> THEN <<>>
    ELSE IF Head(b) = 226 /\ Len(b) >= 3 /\ b[2] = 128 /\ b[3] = 162
    THEN <<"BULLET">> \o Utf8Decode(SubSeq(b, 4, Len(b)))
    ELSE (CASE Head(b) = 35 -> <<"#">>
            [] Head(b) = 10 -> <<"NL">>
            [] Head(b) = 13 -> <<"CR">>
            [] OTHER -> <<"invalid">>) \o Utf8Decode(Tail(b))

\* cv_generator.py 88-95 and 97-115: the file is opened, the content is
\* written, the size is checked; on any failure the file is removed and
\* generate_cv raises
WriteMarkdownFile ==
    /\ scenario = "markdown"
    /\ mw_result = "none"
    /\ IF mw_doc = NoneDoc \/ ~Encodable(mw_doc)
       THEN \* f.write raises TypeError or UnicodeEncodeError
            /\ mw_bytes' = <<>>
            /\ mw_file' = "absent"
            /\ mw_result' = "raised"
       ELSE LET bytes == Utf8Encode(TranslateNewlines(mw_doc))
            IN  IF Len(bytes) = 0
                THEN \* 91-92
                     /\ mw_bytes' = <<>>
                     /\ mw_file' = "absent"
                     /\ mw_result' = "raised"
                ELSE /\ mw_bytes' = bytes
                     /\ mw_file' = "present"
                     /\ mw_result' = "returned"
    /\ UNCHANGED mw_doc
    /\ UNCHANGED <<now, envvars, mrvars, cvvars, hvars, rpvars, rdvars, orvars, pbvars, fbvars, clvars, cfvars, morevars>>

(***************************************************************************)
(* The specification                                                       *)
(***************************************************************************)
Init ==
    /\ scenario \in Scenarios
    /\ now = 0
    /\ stalls = 0
    /\ enabled \in (IF scenario \in AIScenarios THEN BOOLEAN ELSE {TRUE})
    /\ mr_pc = "idle"
    /\ mr_msgs = <<>>
    /\ attempt = 0
    /\ started = 0
    /\ thr = [k \in Attempts |-> "none"]
    /\ mr_deadline = 0
    /\ mr_result = "none"
    /\ mr_value = "none"
    /\ waits = <<>>
    /\ mr_fails = <<>>
    /\ cv_pc = "idle"
    /\ cv_format = "none"
    /\ cv_data_ok = TRUE
    /\ cv_deadline = 0
    /\ markdown = "unset"
    /\ cv_source = "none"
    /\ fs = [p \in Paths |-> Absent]
    /\ cv_result = "none"
    /\ cv_path = "none"
    /\ cv_log = <<>>
    /\ h_pc = "idle"
    /\ h_deadline = 0
    /\ h_status = 0
    /\ h_output_file = "none"
    /\ scheduled = {}
    /\ rp_pc = "idle"
    /\ rp_extract = "none"
    /\ rp_out = "none"
    /\ rp_analysis = "none"
    /\ rd_lines \in (IF scenario = "render" THEN SeqsUpTo(LineKinds, MaxLines) ELSE {<<>>})
    /\ or_pc = "idle"
    /\ or_via = FALSE
    /\ or_resume_ok = TRUE
    /\ or_deadline = 0
    /\ or_parsed = NoObject
    /\ or_result = NoResult
    /\ ro_result = NoResult
    /\ pb_pc = "idle"
    /\ pb_extract = "none"
    /\ pb_out = "none"
    /\ fb_data \in (IF scenario = "fallback" THEN CvDataInputs
                    ELSE {[dict |-> TRUE, personal |-> "absent", work |-> "absent",
                           education |-> "absent", skills |-> "absent"]})
    /\ fb_docs = <<>>
    /\ cl_text \in (IF scenario = "clean"
                    THEN SeqsUpTo(InputChars, MaxChars) \cup HeaderTexts
                    ELSE {<<>>})
    /\ cl_out = <<>>
    /\ cf_kind \in (IF scenario = "cleanup" THEN [CleanupTaskIds -> CleanupKinds]
                    ELSE {[t \in CleanupTaskIds |-> "async"]})
    /\ cf_file \in (IF scenario = "cleanup" THEN {"present", "absent"} ELSE {"absent"})
    /\ cf_pc = [t \in CleanupTaskIds |-> "start"]
    /\ cf_caught = [t \in CleanupTaskIds |-> FALSE]
    /\ mw_doc \in (IF scenario = "markdown" THEN MdDocuments ELSE {<<>>})
    /\ mw_file = "absent"
    /\ mw_bytes = <<>>
    /\ mw_result = "none"
    /\ docx_done = FALSE
    /\ docx_doc = <<>>
    /\ pdf_done = FALSE
    /\ pdf_elements = <<>>
    /\ pa_text \in (IF scenario = "parse" THEN ResponseTexts ELSE {<<>>})
    /\ pa_done = FALSE
    /\ pa_tiers = <<>>
    /\ pa_outcome = "none"
    /\ pg_pages \in (IF scenario = "pdf" THEN SeqsUpTo(PageOutcomes, MaxPages) ELSE {<<>>})
    /\ pg_next = 1
    /\ pg_text = <<>>
    /\ pg_value = <<>>
    /\ pg_out = "none"
    /\ lc_pc = "idle"
    /\ lc_text = "none"
    /\ lc_record = "none"
    /\ lc_api_status = 0

Next ==
    \/ Tick
    \/ Elapse
    \/ Stall
    \/ CallMakeRequest
    \/ CallerCancelled
    \/ \E k \in Attempts, o \in ThreadOutcomes : ThreadReturns(k, o)
    \/ AttemptTimesOut
    \/ BackoffEnds
    \/ CallGenerateCv
    \/ GroqGenerateCvReturns
    \/ CvBudgetExpires
    \/ \E lib \in LibraryOutcomes : RenderCv(lib)
    \/ HandleCvRequest
    \/ HandlerGetsResult
    \/ HandlerTimesOut
    \/ CallProcessResume
    \/ AnalyzeReturns
    \/ CreateDocx
    \/ CreatePdf
    \/ CallOptimizeResume
    \/ OptimizeReturns
    \/ OptimizeBudgetExpires
    \/ CallBuildFromResume
    \/ BuildFromResumeReturns
    \/ CallGenerateFallbackCv
    \/ CallCleanExtractedText
    \/ \E t \in CleanupTaskIds : CleanupChecks(t)
    \/ \E t \in CleanupTaskIds : CleanupRemoves(t)
    \/ WriteMarkdownFile
    \/ ParseOptimizeResponse
    \/ ExtractPdfPage
    \/ PdfExtractionEnds
    \/ CallGenerateCoverLetter
    \/ CoverLetterReturns

Spec == Init /\ [][Next]_vars

(***************************************************************************)
(* Properties                                                              *)
(***************************************************************************)
RetryFailures == {"timeout", "api_error", "invalid_response"}
LacksKey(msgs) == \E i \in 1..Len(msgs) : ~(MessageKeys \subseteq msgs[i])
LocalDocuments == {"simple_cv", "fallback_cv", "error_cv"}
InLog(e) == \E i \in 1..Len(cv_log) : cv_log[i] = e
RenderFailed == \E o \in {"zero_byte", "raises", "raises_empty", "raises_partial"} : InLog(o)

\* C1: _make_request starts at most max_retries + 1 = 3 API attempts, and
\* when it ends with the failure of its attempts (timeout, transport error,
\* invalid response) exactly 3 attempts have been started.
C1_AttemptsBounded ==
    /\ started <= max_retries + 1
    /\ Cardinality({k \in Attempts : thr[k] # "none"}) = started
    /\ (mr_pc = "done" /\ mr_result \in RetryFailures) => started = max_retries + 1

C1_Witness ==
    /\ scenario = "request"
    /\ mr_pc = "done"
    /\ mr_result = "timeout"
    /\ started = max_retries + 1

\* C2: when the caller of _make_request is cancelled (directly, or by the
\* 90-second budget of CVGenerator.generate_cv) during an attempt or during
\* a backoff, the call ends at once with the cancellation and starts no
\* attempt; once it has ended with the cancellation it stays ended and no
\* further attempt is started.
C2_CancellationPropagates ==
    [][ /\ (CallerCancelled \/ CvBudgetExpires) =>
              (mr_pc' = "done" /\ mr_result' = "cancelled" /\ started' = started)
        /\ mr_result = "cancelled" =>
              (mr_pc' = "done" /\ mr_result' = "cancelled" /\ started' = started)
      ]_vars

\* cancelled during the backoff that follows the first failed attempt
C2_Witness ==
    /\ mr_pc = "done"
    /\ mr_result = "cancelled"
    /\ started = 1
    /\ waits = <<BackoffDelay(0)>>

\* C3: the API call of a timed-out attempt has stopped before the next
\* attempt starts and before _make_request ends with the timeout: never two
\* API calls of one request in progress, none in progress after the call
\* has ended with the timeout.
C3_NoDanglingCall ==
    /\ Cardinality(Running) <= 1
    /\ (mr_pc = "done" /\ mr_result = "timeout") => Running = {}

\* C4: when a message lacks 'role' or 'content', _make_request ends with an
\* error without having started an attempt or waited a backoff.
C4_MalformedFailsFast ==
    (mr_pc # "idle" /\ LacksKey(mr_msgs)) =>
        /\ mr_pc = "done"
        /\ mr_result \in {"malformed_request", "not_configured"}
        /\ started = 0
        /\ waits = <<>>
        /\ \A k \in Attempts : thr[k] = "none"

\* the second message has 'role' but no 'content'
C4_Witness ==
    /\ enabled
    /\ mr_pc = "done"
    /\ mr_result = "malformed_request"
    /\ mr_msgs = <<WellFormedMessage, {"role"}>>

\* C5: _make_request returns successfully only with a non-empty text.
C5_SuccessIsNonEmpty ==
    mr_result = "success" => NonEmptyText(mr_value)

\* C6: whenever the AI step of CV generation has failed (client disabled,
\* _make_request failed, 90-second budget exceeded), generate_cv goes on to
\* render a locally synthesized non-empty document, and it raises only if
\* rendering failed.
AIFailed ==
    /\ cv_pc \in {"render", "done"}
    /\ cv_format \in SupportedFormats
    /\ ~enabled \/ mr_result \in RetryFailures \cup {"cancelled"}

C6_AIFailureFallsBack ==
    AIFailed =>
        /\ markdown \in LocalDocuments
        /\ NonEmptyText(markdown)
        /\ cv_pc = "done" => Len(cv_log) >= 1
        /\ cv_result = "raised" => RenderFailed

\* the budget expired and the fallback document was rendered and returned
C6_Witness ==
    /\ cv_pc = "done"
    /\ mr_result = "cancelled"
    /\ markdown = "fallback_cv"
    /\ cv_result = "returned"
    /\ fs[cv_path].state = "data"

\* C7: when extraction gave text and the AI request failed or its response
\* is no JSON object, process_resume returns a result whose analysis is the
\* locally computed skeleton.
C7_SkeletonOnAIFailure ==
    (rp_pc = "done" /\ rp_extract = "text"
        /\ ~(mr_result = "success" /\ ParsesToDict(mr_value))) =>
        (rp_out = "result" /\ rp_analysis = "skeleton")

\* C8: whenever generate_cv returns a path, the file at the path exists and
\* is not empty.
C8_ReturnedFileHasBytes ==
    cv_result = "returned" => fs[cv_path].state = "data"

C10_TimeoutUnwinds ==
    h_status = 504 =>
        /\ mr_pc \notin {"in_flight", "backoff"}
        /\ cv_pc \notin {"ai", "render"}
        /\ \A p \in Paths : fs[p].state # "absent" => p \in scheduled

\* C11: from a document made of one '# ' line, one '## ' line and three
\* '- ' lines, _create_docx makes exactly one level-1 heading, one level-2
\* heading and three list items, and so does _create_pdf.
CountLines(ls, k) == Cardinality({i \in 1..Len(ls) : ls[i] = k})
CanonicalC11(ls) ==
    /\ CountLines(ls, "h1") = 1
    /\ CountLines(ls, "h2") = 1
    /\ CountLines(ls, "bullet") = 3
    /\ \A i \in 1..Len(ls) : ls[i] \in {"h1", "h2", "bullet", "blank"}
DocxCount(style) == Cardinality({i \in 1..Len(docx_doc) : docx_doc[i].style = style})
PdfCount(style, mark) ==
    Cardinality({i \in 1..Len(pdf_elements) :
                    /\ pdf_elements[i].flowable = "Paragraph"
                    /\ pdf_elements[i].style = style
                    /\ pdf_elements[i].mark = mark})

C11_RenderCounts ==
    /\ (docx_done /\ CanonicalC11(rd_lines)) =>
          /\ DocxCount("Heading 1") = 1
          /\ DocxCount("Heading 2") = 1
          /\ DocxCount("List Bullet") = 3
    /\ (pdf_done /\ CanonicalC11(rd_lines)) =>
          /\ PdfCount("Title", "none") = 1
          /\ PdfCount("Heading2", "u") = 1
          /\ PdfCount("NormalSpaced", "bullet") = 3

\* C12: when the object parsed from the response lacks optimized_text, score
\* or suggestions, GroqClient.optimize_resume still returns a success that
\* carries the parsed text, with a default in place of the missing field.
LacksRequiredField(obj) ==
    obj.optimized_text = "absent" \/ obj.score.t = "absent" \/ obj.suggestions = "absent"

C12_PartialResultKept ==
    (or_pc = "done" /\ mr_result = "success" /\ mr_value \in {"json", "fenced_json"}
        /\ LacksRequiredField(or_parsed) /\ or_parsed.optimized_text = "present"
        /\ or_parsed.suggestions \in {"list", "string", "absent"}) =>
        /\ or_result.status = "success"
        /\ or_result.optimized_text = "parsed"

\* C13: every result GroqClient.optimize_resume or ResumeOptimizer.
\* optimize_resume returns carries a score that is a finite number between
\* 0 and 100, whatever the score of the parsed object was.
ScoreInRange(res) ==
    res.status # "none" => (res.score.k = "fin" /\ 0 <= res.score.v /\ res.score.v <= 100)

C13_ScoreInRange ==
    /\ ScoreInRange(or_result)
    /\ ScoreInRange(ro_result)

\* the AI returned a score above the range and both callers got 100
C13_Witness ==
    /\ or_pc = "done"
    /\ or_via
    /\ or_parsed.score = [t |-> "number", f |-> Fin(250)]
    /\ or_result.status = "success"
    /\ or_result.score = Fin(100)
    /\ ro_result.score = Fin(100)

\* C14: in process_resume and in build_from_resume no AI request is made
\* unless extraction has given a text with content; when extraction fails
\* or gives an empty or blank text the run ends with an error.
C14_ExtractionBeforeAI ==
    /\ (rp_pc # "idle" /\ rp_extract # "text") =>
          /\ started = 0
          /\ rp_pc = "done" /\ rp_out = "error"
    /\ (pb_pc # "idle" /\ pb_extract # "text") =>
          /\ started = 0
          /\ pb_pc = "done" => pb_out = "raised"

\* C15: whatever cv_data is, _generate_fallback_cv returns a document that
\* is not empty, is made of strings and starts with a level-1 heading, and
\* a second call on the same cv_data returns the same document.
C15_FallbackTotal ==
    \A i \in 1..Len(fb_docs) :
        /\ Len(fb_docs[i]) >= 1
        /\ fb_docs[i][1].kind = "h1"
        /\ \A j \in 1..Len(fb_docs[i]) : fb_docs[i][j].kind # "not_str"
        /\ fb_docs[i] = fb_docs[1]

\* nothing is given (cv_data = {}), and a list entry of the wrong type
C15_Witness ==
    /\ Len(fb_docs) = FallbackCalls
    /\ fb_data.dict /\ fb_data.personal = "absent" /\ fb_data.work = "absent"
    /\ fb_data.education = "absent" /\ fb_data.skills = "absent"
    /\ fb_docs[1][1] = Line("h1", "Your Name")

\* C16: the fallback CV made from a cv_data whose work_experience is an empty
\* list has the Work Experience heading, and no bullet line follows it
\* before the next section heading.
C16_EmptyExperienceSection ==
    \A i \in 1..Len(fb_docs) :
        (fb_data.dict /\ fb_data.work = "empty" /\ fb_docs[i][1].text # "CV Generation Error") =>
            \E j \in 1..Len(fb_docs[i]) :
                /\ fb_docs[i][j] = Line("h2", "Work Experience")
                /\ \A m \in (j + 1)..Len(fb_docs[i]) :
                      fb_docs[i][m].kind = "bullet" =>
                          \E n \in (j + 1)..(m - 1) : fb_docs[i][n].kind = "h2"

\* C17: cleaning a text that _clean_extracted_text has returned gives that
\* text again: clean(clean(t)) = clean(t) for every text t.
C17_CleanIdempotent ==
    \A i \in 2..Len(cl_out) : cl_out[i] = cl_out[i - 1]

\* a text with a bullet and a run of whitespace, which the first cleaning
\* changed
C17_Witness ==
    /\ Len(cl_out) = CleanCalls
    /\ cl_text = <<"BULLET", "SP", "NL", "A", "FF">>
    /\ cl_out[1] = <<"a_circumflex", "euro", "cent", "SP", "A">>

LinearWaits == [i \in 1..Len(waits) |-> i * retry_delay]

C20_OneLinearBackoff ==
    /\ [](/\ waits = LinearWaits
          /\ Len(waits) <= max_retries
          /\ mr_pc = "in_flight" => Len(waits) = attempt
          /\ mr_pc = "backoff" => Len(waits) = attempt + 1
          /\ (mr_pc = "done" /\ mr_result \in RetryFailures) => Len(waits) = max_retries)
    /\ [][ /\ (mr_pc = "in_flight" /\ mr_pc' = "backoff") =>
                /\ attempt < max_retries
                /\ waits' = Append(waits, (attempt + 1) * retry_delay)
                /\ mr_deadline' = now + (attempt + 1) * retry_delay
           /\ (mr_pc = "backoff" /\ mr_pc' = "in_flight") =>
                /\ attempt' = attempt + 1
                /\ waits' = waits
                /\ now >= mr_deadline
                /\ stalls = 0 => now = mr_deadline
           /\ (mr_pc = "in_flight" /\ mr_pc' = "done" /\ mr_result' \in RetryFailures) =>
                /\ attempt = max_retries
                /\ waits' = waits
           /\ mr_pc = "done" => waits' = waits
         ]_vars

\* the first attempt timed out (its call is still running), the second
\* failed with an error, both waits were slept and the third attempt started
\* 63 seconds after the first
C20_Witness ==
    /\ scenario = "request"
    /\ mr_pc = "in_flight"
    /\ attempt = max_retries
    /\ thr[0] = "running"
    /\ thr[1] = "finished"
    /\ waits = <<retry_delay, retry_delay + retry_delay>>
    /\ stalls = 0
    /\ now = AttemptTimeout + retry_delay + retry_delay + retry_delay

\* C21: the parsing of optimize_resume goes from the whole text to the
\* fenced block to the braces span, in this order, and gives up only when
\* none of them that the text has holds valid JSON: a response with a fenced
\* block that does not parse and a braces span that does is not declared
\* unparseable.
TierOrder == <<"direct", "fence", "span">>
TierRank(t) == CHOOSE i \in 1..Len(TierOrder) : TierOrder[i] = t
C21_TiersInOrder ==
    pa_done =>
        /\ \A i, j \in 1..Len(pa_tiers) :
               i < j => TierRank(pa_tiers[i]) < TierRank(pa_tiers[j])
        /\ pa_outcome = "unparseable" =>
               /\ ~JsonLoads(pa_text)
               /\ HasFence(pa_text) => ~JsonLoads(FenceInterior(pa_text))
               /\ HasBraces(pa_text) => ~JsonLoads(BraceSpan(pa_text))

\* C22: however the AI step of CV generation fails (client disabled, request
\* failed after its retries, 90-second budget over), the locally built
\* document that is rendered from well-formed data has the sections heading,
\* summary, experience, education, skills, in this order.
CanonicalSections == <<"heading", "summary", "experience", "education", "skills">>
SectionName(l) ==
    CASE l.text = "Summary" -> "summary"
      [] l.text = "Work Experience" -> "experience"
      [] l.text = "Education" -> "education"
      [] l.text = "Skills" -> "skills"
      [] OTHER -> "heading"
Sections(ls) ==
    LET titles == SelectSeq(ls, LAMBDA l : l.kind \in {"h1", "h2"})
    IN  [i \in 1..Len(titles) |-> SectionName(titles[i])]
C22_FallbackSectionOrder ==
    (/\ cv_pc = "done"
     /\ cv_result = "returned"
     /\ cv_data_ok
     /\ cv_source \in {"simple", "fallback"})
    => Sections(DocumentLines(markdown)) = CanonicalSections

\* C23: in the docx scan a '- ' line closes the paragraph that is open: the
\* text of a bullet line and the text of a plain line are never runs of the
\* same paragraph of the document, in whichever order the two lines come.
HasRun(elem, kind) == \E r \in 1..Len(elem.runs) : elem.runs[r] = kind
C23_BulletClosesParagraph ==
    docx_done =>
        \A e \in 1..Len(docx_doc) :
            ~(HasRun(docx_doc[e], "bullet") /\ HasRun(docx_doc[e], "text"))

\* C24: in the docx scan a heading line or an empty line leaves no paragraph
\* open: every '# ', '## ', '### ' line is a heading paragraph of its level
\* that holds its own text only, and a plain line that comes first or right
\* after a heading or an empty line is the first run of a new plain paragraph.
Headings == {"h1", "h2", "h3"}
LevelStyle == [h1 |-> "Heading 1", h2 |-> "Heading 2", h3 |-> "Heading 3"]
RECURSIVE RunsBefore(_, _)
RunsBefore(doc, e) ==
    IF e <= 1 THEN 0 ELSE RunsBefore(doc, e - 1) + Len(doc[e - 1].runs)
\* the line's number among the lines that are not empty
RunNumber(ls, i) == Cardinality({j \in 1..i : ls[j] # "blank"})
\* the paragraph that holds the k-th run of the document
ElementOfRun(doc, k) ==
    CHOOSE e \in 1..Len(doc) :
        RunsBefore(doc, e) < k /\ k <= RunsBefore(doc, e) + Len(doc[e].runs)
C24_HeadingClosesParagraph ==
    docx_done =>
        /\ RunsBefore(docx_doc, Len(docx_doc) + 1) = RunNumber(rd_lines, Len(rd_lines))
        /\ \A i \in 1..Len(rd_lines) :
              LET k == RunNumber(rd_lines, i)
                  e == ElementOfRun(docx_doc, k)
              IN  /\ rd_lines[i] \in Headings =>
                        docx_doc[e] = [style |-> LevelStyle[rd_lines[i]],
                                       runs |-> <<rd_lines[i]>>]
                  /\ (/\ rd_lines[i] = "text"
                      /\ (i = 1 \/ rd_lines[i - 1] \in Headings \cup {"blank"}))
                     => /\ docx_doc[e].style = "Normal"
                        /\ k = RunsBefore(docx_doc, e) + 1
C24_Witness ==
    /\ docx_done
    /\ rd_lines = <<"text", "blank", "text", "h3", "text">>
    /\ Len(docx_doc) = 4

\* C25: PDF extraction skips a page whose extraction raises and goes on with
\* the next one; what it returns is the texts of the pages that gave text,
\* in page order, with a newline between them; when no page gives text
\* process_resume returns an error result.
YieldingPages == {i \in 1..Len(pg_pages) : pg_pages[i] \in {"text", "blank"}}
IsPagesInOrder(value) ==
    /\ Len(value) = IF YieldingPages = {} THEN 0 ELSE 2 * Cardinality(YieldingPages) - 1
    /\ \A k \in 1..Len(value) :
          IF k % 2 = 0 THEN value[k].nl
          ELSE /\ ~value[k].nl
               /\ value[k].page \in YieldingPages
               /\ Cardinality({i \in YieldingPages : i < value[k].page}) = (k - 1) \div 2
C25_PdfPagesSkipped ==
    pg_out # "none" =>
        /\ IsPagesInOrder(pg_value)
        /\ YieldingPages = {} => pg_out = "error"
        /\ (\E i \in 1..Len(pg_pages) : pg_pages[i] = "text") => pg_out = "text"
C25_Witness ==
    /\ pg_out = "text"
    /\ pg_pages = <<"raises", "text", "raises", "text">>
    /\ Len(pg_value) = 3
    /\ pg_value[1].page = 2
    /\ pg_value[3].page = 4

\* C26: _clean_extracted_text rewrites a heading-like ALL-CAPS line of the
\* extracted text into the header format: the line in title case, then a
\* line of '=' under it.
HasCapsLine(t) == \E i \in 1..Len(t) : HeaderEnds(t, i) # {}
HasUnderline(t) == \E k \in 1..Len(t) : t[k] = "EQ"
C26_CapsLineBecomesHeader ==
    (Len(cl_out) > 0 /\ HasCapsLine(cl_text)) => HasUnderline(cl_out[1])

\* C27: ResumeOptimizer.optimize_resume reports status 'success' only if the
\* client reported 'success': an error result of GroqClient.optimize_resume
\* (client disabled, request failed or timed out, response unparseable) is
\* passed on with status 'error'.
C27_ErrorStaysError ==
    (or_pc = "done" /\ or_via /\ or_result.status # "none") =>
        (ro_result.status = "success" => or_result.status = "success")

\* C28: the budgets around _make_request (90 s in CVGenerator.generate_cv,
\* 120 s in GroqClient.optimize_resume) are shorter than the retry sequence.
\* When the loop is not held up and the attempts run into the 60-second
\* timeout, the budget runs out while the second attempt is in flight: the
\* second attempt never times out, a third is never started, _make_request
\* ends cancelled and not with the timeout of its last attempt, and the
\* caller takes its own timeout path at exactly its budget.
BudgetedScenarios == {"cv", "handler", "optimize"}
FirstAttemptTimedOut == Len(mr_fails) > 0 /\ mr_fails[1] = "timeout"
SecondAttemptPending == \A i \in 2..Len(mr_fails) : mr_fails[i] = "timeout"
C28_BudgetBeforeRetries ==
    (/\ scenario \in BudgetedScenarios
     /\ stalls = 0
     /\ FirstAttemptTimedOut
     /\ SecondAttemptPending
     /\ mr_result # "success")
    => /\ Len(mr_fails) = 1
       /\ started <= 2
       /\ mr_result \in {"none", "cancelled"}
       /\ mr_result = "cancelled" =>
             /\ attempt = 1
             /\ scenario = "optimize" =>
                   (now = OptimizeBudget /\ or_pc = "done" /\ or_result = ErrorResult)
             /\ scenario # "optimize" =>
                   (now = CvBudget /\ cv_source = "fallback")
C28_Witness ==
    /\ scenario = "cv"
    /\ stalls = 0
    /\ mr_fails = <<"timeout">>
    /\ mr_result = "cancelled"
    /\ started = 2
    /\ now = CvBudget
    /\ cv_pc = "done"
    /\ cv_source = "fallback"

\* C29: the format the /api/cv/generate handler declares for a generated CV
\* (content_type, filename extension, format) is the format of the file it
\* returns, also when generate_cv fell back to markdown after a failed
\* render.
C29_DeclaredFormatIsFileFormat ==
    (h_pc = "done" /\ h_status = 200) => fs[h_output_file].fmt = DeclaredFormat

\* C30: when the AI request fails or the client is disabled, what
\* generate_cover_letter gives is told apart from a generated letter: the
\* legacy endpoint never stores an error message as the text of a cover
\* letter with status 'completed' and never returns it as the cover letter
\* with API status 200.
C30_ErrorIsNotALetter ==
    (lc_pc = "done" /\ (~enabled \/ mr_result # "success")) =>
        ~(lc_text = "error_message" /\ (lc_record = "completed" \/ lc_api_status = 200))

====
